---- MODULE Spec2Model ----
(***************************************************************************)
(* A model of the price tracker's monitoring pipeline:                     *)
(*   - the store (products and price_history tables, storage.py),          *)
(*   - the notifier with its in-memory cooldown map (notifier.py),         *)
(*   - the check cycle and the scheduler loop (scheduler_module.py),       *)
(*   - the resolver get_product_info (scraper.py),                         *)
(*   - the demonstration run run_demo (demo.py).                           *)
(* Time is counted in whole minutes.  Prices are whole currency units.     *)
(***************************************************************************)
EXTENDS Integers, Sequences, FiniteSets, TLC

\* ------------------------------------------------------------------ bounds
MaxProducts == 2      \* rows the products table may hold
MaxTicks == 2         \* check cycles in one process lifetime; the menu is used while one is left
MaxSnapshots == 3     \* rows the price_history table may hold
MaxCalls == 3         \* calls of the notifier made by NotifierSpec's callers
MaxInFlight == 2      \* calls of the notifier that are in their SMTP exchange at a time
MaxTextLen == 4       \* characters in a generated price text
MaxNodes == 3         \* text nodes in the body of a generated document
MaxHistory == 3       \* rows in a generated price_history table

\* ------------------------------------------------------- program constants
COOLDOWN_MINUTES == 60
DEFAULT_SMTP_PORT == 587

\* --------------------------------------------------------------- value sets
Urls == {"u1", "u2"}
Targets == {2}
\* target prices a caller or the user may give, as numbers
RawTargets == {0 - 5, 0} \cup Targets
\* what the user may type at the target price prompt: a number, or "nan"
NaNTyped == [kind |-> "nan", value |-> 0]
TypedTargets == {[kind |-> "number", value |-> t] : t \in RawTargets} \cup {NaNTyped}
\* scraped prices: below, at and above the target
Prices == {1, 2, 3}
\* time.sleep between two ticks: the minutes that pass before the next run
Delays == {59, 60}
\* minutes an SMTP exchange may take
SendDurations == {0, 1}
\* the process environment: ALERT_RECIPIENT_EMAIL / ALERT_EMAIL ("" when unset),
\* which of the SMTP_* / SENDER_EMAIL variables are set, and what SMTP_PORT
\* holds: nothing ("unset"), a string int() reads ("digits", with its value), a
\* string it rejects, the empty one included ("text"), or, in a settings file
\* only, a JSON number ("number", its value in hundredths: 0.5 is 50) or a
\* JSON number beyond the doubles, which json.load reads as inf ("infinity")
Recipients == {"", "r1"}
NoPort == [kind |-> "unset", value |-> 0]
SmtpFull == [SMTP_HOST |-> TRUE, SMTP_PORT |-> NoPort, SMTP_USER |-> TRUE,
             SMTP_PASSWORD |-> TRUE, SENDER_EMAIL |-> TRUE]
SmtpNoPassword == [SmtpFull EXCEPT !.SMTP_PASSWORD = FALSE]
\* SMTP_PORT="0"
SmtpPortZero == [SmtpFull EXCEPT !.SMTP_PORT = [kind |-> "digits", value |-> 0]]
\* "SMTP_PORT": 0 in a settings file
SmtpPortNumberZero == [SmtpFull EXCEPT !.SMTP_PORT = [kind |-> "number", value |-> 0]]
\* "SMTP_PORT": 0.5 in a settings file
SmtpPortHalf == [SmtpFull EXCEPT !.SMTP_PORT = [kind |-> "number", value |-> 50]]
\* "SMTP_PORT": 25.7 in a settings file
SmtpPortFraction == [SmtpFull EXCEPT !.SMTP_PORT = [kind |-> "number", value |-> 2570]]
\* "SMTP_PORT": 1e999 in a settings file
SmtpPortInfinite == [SmtpFull EXCEPT !.SMTP_PORT = [kind |-> "infinity", value |-> 0]]
Environments ==
  { [recipient |-> "", smtp |-> SmtpFull],
    [recipient |-> "r1", smtp |-> SmtpFull],
    [recipient |-> "r1", smtp |-> SmtpNoPassword] }

NoPrice == 0 - 1

\* what config_path can lead to: nothing to read (None, or no file at the
\* path), a JSON object of settings, or a file json.load cannot read as an object
NoConfigFile == <<>>
ConfigFiles ==
  {NoConfigFile, <<[kind |-> "settings", smtp |-> SmtpFull]>>,
   <<[kind |-> "settings", smtp |-> SmtpPortZero]>>,
   <<[kind |-> "settings", smtp |-> SmtpPortNumberZero]>>,
   <<[kind |-> "settings", smtp |-> SmtpPortHalf]>>,
   <<[kind |-> "settings", smtp |-> SmtpPortFraction]>>,
   <<[kind |-> "settings", smtp |-> SmtpPortInfinite]>>,
   <<[kind |-> "malformed", smtp |-> SmtpFull]>>}

VARIABLES
  products,        \* table products: sequence of rows, row i has id i
  price_history,   \* table price_history: rows in insertion order
  LAST_NOTIFIED,   \* notifier._LAST_NOTIFIED: (recipient, url) -> minute of last send
  now,             \* the wall clock (datetime.utcnow), in minutes
  recipient_env,   \* environment: the alert recipient ("" when unset)
  smtp_env,        \* environment: which SMTP settings are set
  config_file,     \* the file the caller's config_path names, <<>> for None or no such file
  pc,              \* where the process is
  ticks,           \* check cycles started so far
  listed,          \* _run_price_check_once: local `products`
  idx,             \* _run_price_check_once: position of the for loop (1-based)
  info,            \* _run_price_check_once: local `current_price` of the product in hand
  processed,       \* _run_price_check_once: local counter
  successful_scrapes,
  notifications_sent,
  summary,         \* the run summary printed by the cycle, <<>> while none is printed
  log,             \* per listed product of this tick: what happened to it
  histBase,        \* Len(price_history) when this tick listed its products
  gateBase,        \* the keys whose gate was open when this tick listed its products
  suppressed,      \* per key: the minutes at which the gate denied a call
  sentTimes,       \* per key: the minutes at which an alert was delivered
  stopCause,       \* why schedule_price_checks last ended
  calls,           \* the calls of send_price_drop_email made by NotifierSpec's caller
  rq,              \* the last call of get_product_info: url, site and response
  rs,              \* what that call gave its caller
  fq,              \* a call of one of the program's functions: its name and arguments
  fr               \* what that call returned, <<>> before it has run

vars == <<products, price_history, LAST_NOTIFIED, now, recipient_env, smtp_env, config_file,
          pc, ticks,
          listed, idx, info, processed, successful_scrapes, notifications_sent, summary,
          log, histBase, gateBase, sentTimes, suppressed, stopCause, calls, rq, rs, fq, fr>>

storeVars == <<products, price_history>>
envVars == <<recipient_env, smtp_env, config_file>>
cycleVars == <<listed, idx, info, processed, successful_scrapes, notifications_sent,
               summary, log, histBase, gateBase>>
schedulerVars == <<pc, ticks, cycleVars, stopCause>>
resolverVars == <<rq, rs>>
callVars == <<fq, fr>>

\* ============================================================ storage.py

Sites == {"other"}

\* save_product: with an id the row of that id is rewritten (no row, no
\* change); with none (<<>>) a row is inserted and the store assigns the next
\* id. The target price is stored as given.
save_product(tbl, id, product_url, target_price, site_name, active) ==
  IF id # <<>>
  THEN [k \in DOMAIN tbl |->
          IF tbl[k].id = id[1]
          THEN [id |-> tbl[k].id, product_url |-> product_url,
                target_price |-> target_price, site_name |-> site_name,
                active |-> active]
          ELSE tbl[k]]
  ELSE Append(tbl, [id |-> Len(tbl) + 1, product_url |-> product_url,
                    target_price |-> target_price, site_name |-> site_name,
                    active |-> active])

add_product(tbl, product_url, target_price, site_name, active) ==
  save_product(tbl, <<>>, product_url, target_price, site_name, active)

\* a listing that ignores the active flag
list_products_unfiltered(tbl, active_only) == tbl

\* list_products: SELECT ... FROM products [WHERE active = 1]
list_products(tbl, active_only) ==
  SelectSeq(tbl, LAMBDA p : (~active_only) \/ p.active)

\* get_all_products: active_only is "None", "True" or "False"
get_all_products(tbl, active_only) ==
  IF active_only = "None" THEN list_products(tbl, FALSE)
  ELSE list_products(tbl, active_only = "True")

\* set_product_active: UPDATE products SET active = ? WHERE id = ?
set_product_active(tbl, product_id, active) ==
  [i \in DOMAIN tbl |->
     IF tbl[i].id = product_id THEN [tbl[i] EXCEPT !.active = active] ELSE tbl[i]]

\* ---- scraped_at is a TEXT column: line 208 binds str(scraped_at), and the
\* default of line 199 is datetime.utcnow().isoformat(). A text is the
\* sequence of its characters.

\* the characters of the stored stamps, in the order of their code points
StampChars == <<" ", "-", ".", "0", "1", "2", "3", "4", "5", "6", "7", "8", "9", ":", "T">>

\* the first position from i on at which two texts differ or one of them ends
RECURSIVE FirstDifference(_, _, _)
FirstDifference(a, b, i) ==
  IF i > Len(a) \/ i > Len(b) \/ a[i] # b[i] THEN i ELSE FirstDifference(a, b, i + 1)

\* the BINARY collation of SQLite: the first differing character decides, by
\* its code point, and a text sorts after its proper prefixes
TextLess(a, b) ==
  LET i == FirstDifference(a, b, 1)
      rank(c) == CHOOSE r \in DOMAIN StampChars : StampChars[r] = c
  IN i <= Len(b) /\ (i > Len(a) \/ rank(a[i]) < rank(b[i]))

\* str() of a non-negative int
RECURSIVE str_int(_)
str_int(n) == IF n < 10 THEN <<StampChars[n + 4]>>
              ELSE Append(str_int(n \div 10), StampChars[(n % 10) + 4])

\* a number padded with zeros to a width, as the fields of a datetime are
RECURSIVE Padded(_, _)
Padded(n, width) == IF width = 0 THEN <<>>
                    ELSE Append(Padded(n \div 10, width - 1), StampChars[(n % 10) + 4])

\* the text of a datetime: the clock of the model counts minutes from
\* 2026-01-01 00:00:00, and the microseconds are left out when they are 0
datetime_text(separator, minute, micro) ==
  <<"2", "0", "2", "6", "-", "0", "1", "-">> \o Padded(1 + minute \div 1440, 2)
    \o <<separator>>
    \o Padded((minute \div 60) % 24, 2) \o <<":">> \o Padded(minute % 60, 2) \o <<":", "0", "0">>
    \o (IF micro = 0 THEN <<>> ELSE <<".">> \o Padded(micro, 6))

\* datetime.isoformat() separates date and time by "T", str(datetime) by a space
isoformat(minute, micro) == datetime_text("T", minute, micro)
str_datetime(minute, micro) == datetime_text(" ", minute, micro)

\* the values a caller passes for scraped_at: None is <<>>, else <<value>>
\* with a datetime object, [kind |-> "datetime", minute, micro], or an int that
\* counts time units, [kind |-> "int", value]
None == <<>>

\* line 208: str(scraped_at)
str_of(value) ==
  IF value.kind = "datetime" THEN str_datetime(value.minute, value.micro)
  ELSE str_int(value.value)

\* lines 198-199 and 208: the text stored.  For None it is
\* datetime.utcnow().isoformat(): the clock of the model counts minutes,
\* utcnow() reads microseconds, and every write takes more than one, so within
\* a minute the microseconds of a stamp are the number of the row it is
\* written to.
stamp_of(hist, scraped_at, clock) ==
  IF scraped_at = None THEN isoformat(clock, Len(hist) + 1) ELSE str_of(scraped_at[1])

\* a store that keeps one snapshot per product and overwrites it
save_price_snapshot_replacing(hist, product_id, price, currency, scraped_at, clock) ==
  IF \E k \in DOMAIN hist : hist[k].product_id = product_id
    THEN [k \in DOMAIN hist |->
            IF hist[k].product_id = product_id
              THEN [hist[k] EXCEPT !.price = price,
                                   !.scraped_at = stamp_of(hist, scraped_at, clock)]
              ELSE hist[k]]
    ELSE Append(hist, [id |-> Len(hist) + 1, product_id |-> product_id,
                       scraped_at |-> stamp_of(hist, scraped_at, clock),
                       price |-> price, currency |-> currency])

\* save_price_snapshot: INSERT INTO price_history (product_id, scraped_at, price, currency)
\* with scraped_at the text of the caller's value, or of the clock for None
save_price_snapshot(hist, product_id, price, currency, scraped_at, clock) ==
  Append(hist, [id |-> Len(hist) + 1, product_id |-> product_id,
                scraped_at |-> stamp_of(hist, scraped_at, clock),
                price |-> price, currency |-> currency])

\* a store that files the snapshot under no product
add_price_snapshot_misfiled(hist, product_id, price, scraped_at, clock) ==
  save_price_snapshot(hist, 0, price, "INR", scraped_at, clock)

\* a store that acknowledges the snapshot without writing it
add_price_snapshot_dropped(hist, product_id, price, scraped_at, clock) ==
  hist

\* add_price_snapshot delegates to save_price_snapshot with its scraped_at;
\* the currency defaults to "INR"
add_price_snapshot(hist, product_id, price, scraped_at, clock) ==
  save_price_snapshot(hist, product_id, price, "INR", scraped_at, clock)

\* the rows of a table that satisfy a test, as positions
RowsOf(hist, product_id) == {k \in DOMAIN hist : hist[k].product_id = product_id}

\* ORDER BY scraped_at DESC over a set of row positions: the rows by their
\* stamps as texts, the greatest text first, rows of equal text in insertion order
RECURSIVE OrderDesc(_, _)
OrderDesc(hist, rows) ==
  IF rows = {} THEN <<>>
  ELSE LET k == CHOOSE i \in rows :
                  \A h \in rows : \/ TextLess(hist[h].scraped_at, hist[i].scraped_at)
                                  \/ hist[h].scraped_at = hist[i].scraped_at /\ i <= h
       IN <<hist[k]>> \o OrderDesc(hist, rows \ {k})

\* get_price_history: the product's rows, the greatest scraped_at first; limit is <<>> for
\* None, else <<n>> for LIMIT n (a negative LIMIT is no limit in SQLite)
get_price_history(hist, product_id, limit) ==
  LET history == OrderDesc(hist, RowsOf(hist, product_id))
  IN IF limit = <<>> \/ limit[1] < 0 \/ limit[1] >= Len(history) THEN history
     ELSE SubSeq(history, 1, limit[1])

\* SQL aggregates over the prices of a set of rows
MinPrice(hist, rows) == CHOOSE m \in {hist[k].price : k \in rows} :
                          \A k \in rows : m <= hist[k].price
MaxPrice(hist, rows) == CHOOSE m \in {hist[k].price : k \in rows} :
                          \A k \in rows : m >= hist[k].price
RECURSIVE SumPrice(_, _)
SumPrice(hist, rows) ==
  IF rows = {} THEN 0
  ELSE LET k == CHOOSE i \in rows : TRUE
       IN hist[k].price + SumPrice(hist, rows \ {k})

\* a price in hundredths is a binary floating point number exactly when it is a
\* multiple of a quarter unit
ExactFloat(price) == price % 25 = 0

RECURSIVE OddPart(_)
OddPart(n) == IF n % 2 = 0 THEN OddPart(n \div 2) ELSE n

\* AVG(price) is the floating point quotient of the floating point sum. It is
\* held as sum / count with the direction of its rounding error: below (-1),
\* none (0) or above (1) the mean of the stored prices, by less than half a
\* hundredth. One price, two equal prices, and exact prices whose mean is a
\* binary fraction are averaged without error; for other rows the direction
\* depends on the binary expansions of the prices and on how the database
\* build accumulates, so each direction is an outcome.
AvgRoundings(hist, rows) ==
  IF \/ Cardinality(rows) <= 1
     \/ Cardinality(rows) = 2 /\ MinPrice(hist, rows) = MaxPrice(hist, rows)
     \/ /\ \A k \in rows : ExactFloat(hist[k].price)
        /\ (SumPrice(hist, rows) \div 25) % OddPart(Cardinality(rows)) = 0
  THEN {0}
  ELSE {0 - 1, 0, 1}

NoStats == <<>>

\* get_min_max_avg_price: the outcomes of the aggregate query, <<>> for None
get_min_max_avg_price(hist, product_id) ==
  LET rows == RowsOf(hist, product_id)
  IN IF Cardinality(rows) = 0 THEN {NoStats}
     ELSE {<<[min_price |-> MinPrice(hist, rows), max_price |-> MaxPrice(hist, rows),
              avg_price |-> [sum |-> SumPrice(hist, rows), count |-> Cardinality(rows),
                             rounding |-> r],
              count |-> Cardinality(rows)]>> : r \in AvgRoundings(hist, rows)}

Abs(x) == IF x < 0 THEN 0 - x ELSE x
Max2(x, y) == IF x >= y THEN x ELSE y

\* a threshold without the floor of 0.01
trend_threshold_x100_unfloored(first) ==
  IF first = 0 THEN 100 ELSE Abs(first)

\* lines 417-420, for prices held in hundredths of a currency unit: a hundred
\* times the threshold, so that 1 % of the first price stays a whole number;
\* the floor of 0.01 units is 1 hundredth, 100 on this scale
trend_threshold_x100(first) ==
  IF first = 0 THEN 100 ELSE Max2(Abs(first), 100)

\* The prices are REAL values and lines 414-423 compute with doubles.  For
\* prices of two decimals a change that differs from the threshold differs
\* from it by 0.0001 at least, far more than the rounding of the doubles, and
\* compares as the decimals do.  Where the decimals of the change and of the
\* threshold are equal the doubles decide.  They are equal too when the first
\* or the last price is 0 (the change is the double 0.01 itself) or the first
\* is a whole multiple of 100 units (first, last and the threshold are whole
\* numbers).
TrendComparedExactly(first, last) == first = 0 \/ last = 0 \/ first % 10000 = 0

\* Pairs of prices whose change is greater in magnitude than the threshold as
\* doubles though equal to it as decimals: 0.51 - 0.5 is the double
\* 0.010000000000000009, above the double 0.01.  For the prices of
\* HistoryPrices these are all such pairs.
RoundedApart == {<<50, 51>>, <<51, 50>>}

\* lines 414-427: delta > threshold gives "up", delta < -threshold "down";
\* the directions the comparison of the doubles can give.  For a pair that is
\* neither compared exactly nor listed in RoundedApart the arithmetic of the
\* doubles is not followed here, and both results are outcomes.
trend_of(first, last) ==
  LET change == 100 * Abs(last - first)
      threshold == trend_threshold_x100(first)
      direction == IF last > first THEN "up" ELSE "down"
  IN IF change > threshold THEN {direction}
     ELSE IF change < threshold \/ TrendComparedExactly(first, last) THEN {"stable"}
     ELSE IF <<first, last>> \in RoundedApart THEN {direction}
     ELSE {"stable", direction}

\* get_price_trend_direction: of the `window` rows get_price_history returns
\* first, the price of the first against the price of the last; the set of the
\* directions the call can return
get_price_trend_direction(hist, product_id, window) ==
  LET w == IF window <= 1 THEN 2 ELSE window
      history == get_price_history(hist, product_id, <<w>>)
  IN IF Len(history) < 2 THEN {"stable"}
     ELSE trend_of(history[Len(history)].price, history[1].price)

\* ====================================================== price_analyzer.py

\* a comparison with the operands of the difference exchanged
analyze_price_exchanged(current_price, target_price) ==
  LET difference == target_price - current_price
  IN [is_below_or_equal |-> difference >= 0,
      current_price |-> current_price,
      target_price |-> target_price,
      difference |-> difference]

\* a comparison that fires above the target
analyze_price_reversed(current_price, target_price) ==
  LET difference == current_price - target_price
  IN [is_below_or_equal |-> difference >= 0,
      current_price |-> current_price,
      target_price |-> target_price,
      difference |-> difference]

\* a comparison that reports a drop whatever the price
analyze_price_any(current_price, target_price) ==
  LET difference == current_price - target_price
  IN [is_below_or_equal |-> TRUE,
      current_price |-> current_price,
      target_price |-> target_price,
      difference |-> difference]

\* a comparison that misses a price equal to the target
analyze_price_strict(current_price, target_price) ==
  LET difference == current_price - target_price
  IN [is_below_or_equal |-> difference < 0,
      current_price |-> current_price,
      target_price |-> target_price,
      difference |-> difference]

analyze_price(current_price, target_price) ==
  LET difference == current_price - target_price
  IN [is_below_or_equal |-> difference <= 0,
      current_price |-> current_price,
      target_price |-> target_price,
      difference |-> difference]

\* ============================================================ notifier.py

\* int() of a number given in hundredths: the whole part, towards zero
IntOfHundredths(v) == IF v >= 0 THEN v \div 100 ELSE 0 - ((0 - v) \div 100)

\* _load_smtp_config: the settings come from the file config_path names when
\* it exists (open and json.load are not guarded: what they raise leaves the
\* function), else from the environment.  host, user, password and sender
\* are given as whether they are set; the port is the number of lines 42-54.
\* int(inf) raises OverflowError, which line 53 does not catch.
load_smtp_config(env, config) ==
  LET data == IF config = NoConfigFile THEN env ELSE config[1].smtp
      port_raw == data.SMTP_PORT
      \* line 42: a JSON number 0 is false there and gives way to None
      port == IF port_raw.kind = "digits" THEN port_raw.value
              ELSE IF port_raw.kind = "number" /\ port_raw.value # 0
                THEN IntOfHundredths(port_raw.value)
              ELSE DEFAULT_SMTP_PORT
  IN [raised |-> \/ config # NoConfigFile /\ config[1].kind = "malformed"
                 \/ port_raw.kind = "infinity",
      host |-> data.SMTP_HOST, port |-> port, user |-> data.SMTP_USER,
      password |-> data.SMTP_PASSWORD, sender |-> data.SENDER_EMAIL]

\* what the SMTP exchange of lines 133-142 can do once it is begun: complete;
\* raise before the message is handed over; raise in quit(), after sendmail
\* has handed the message over; or be interrupted by the user
\* (KeyboardInterrupt, which `except Exception` does not catch) before the
\* message is handed over or after it
TransportOutcomes ==
  {"sent", "failed", "quit_failed", "interrupted_before", "interrupted"}

\* product names: one that UTF-8 encodes and one holding a lone surrogate,
\* which MIMEText(body, "plain", "utf-8") of line 126 cannot encode
LoneSurrogate == "U+D800"
ProductNames == {"Widget", LoneSurrogate}
utf8_encodable(text) == text # LoneSurrogate

\* a gate that is still closed when exactly the cooldown has elapsed
can_send_strict(last, key, clock) ==
  IF key \notin DOMAIN last THEN TRUE
  ELSE clock - last[key] > COOLDOWN_MINUTES

\* _can_send: no send recorded for the key, or the cooldown has elapsed
can_send(last, key, clock) ==
  IF key \notin DOMAIN last THEN TRUE
  ELSE clock - last[key] >= COOLDOWN_MINUTES

\* lines 94-131 of send_price_drop_email, all that comes before the SMTP
\* exchange: the gate (line 98), the configuration (lines 101-109) and the
\* building of the message (lines 111-131).  The result is why the call ends
\* here ("cooldown" and "config" return False, "raised" is an exception of the
\* configuration or of the message, which are outside the try), or "exchange"
\* when the call goes on to the exchange.
before_exchange(last, user_email, product_name, product_url, clock, env, config) ==
  LET key == <<user_email, product_url>>
      cfg == load_smtp_config(env, config)
  IN IF ~can_send(last, key, clock) THEN "cooldown"
     ELSE IF cfg.raised THEN "raised"
     ELSE IF ~(cfg.host /\ cfg.port # 0 /\ cfg.user /\ cfg.password /\ cfg.sender
               /\ user_email # "")
       THEN "config"
     ELSE IF ~utf8_encodable(product_name) THEN "raised"
     ELSE "exchange"

\* an exchange that starts the cooldown when the transport has failed as well
smtp_exchange_recording_failures(last, key, transport, clock) ==
  LET recorded == [k \in DOMAIN last \cup {key} |-> IF k = key THEN clock ELSE last[k]]
  IN IF transport = "interrupted_before"
       THEN [sent |-> FALSE, why |-> "interrupted", delivered |-> FALSE, last |-> last]
     ELSE IF transport = "failed"
       THEN [sent |-> FALSE, why |-> "transport", delivered |-> FALSE, last |-> recorded]
     ELSE IF transport = "quit_failed"
       THEN [sent |-> FALSE, why |-> "transport", delivered |-> TRUE, last |-> recorded]
     ELSE IF transport = "interrupted"
       THEN [sent |-> FALSE, why |-> "interrupted", delivered |-> TRUE, last |-> last]
     ELSE [sent |-> TRUE, why |-> "sent", delivered |-> TRUE, last |-> recorded]

\* an exchange that delivers but never records the send
smtp_exchange_unrecorded(last, key, transport, clock) ==
  IF transport = "interrupted_before"
    THEN [sent |-> FALSE, why |-> "interrupted", delivered |-> FALSE, last |-> last]
  ELSE IF transport = "failed"
    THEN [sent |-> FALSE, why |-> "transport", delivered |-> FALSE, last |-> last]
  ELSE IF transport = "quit_failed"
    THEN [sent |-> FALSE, why |-> "transport", delivered |-> TRUE, last |-> last]
  ELSE IF transport = "interrupted"
    THEN [sent |-> FALSE, why |-> "interrupted", delivered |-> TRUE, last |-> last]
  ELSE [sent |-> TRUE, why |-> "sent", delivered |-> TRUE, last |-> last]

\* lines 133-147 of send_price_drop_email: the SMTP exchange, and after it the
\* write of the cooldown map.  last is the map and clock the time when the
\* exchange has ended: line 146 assigns utcnow() to the entry of the key in
\* the map as it is then.  An exception of the exchange is logged and False
\* returned (lines 143-144); the interrupt leaves the call ("interrupted").
smtp_exchange(last, key, transport, clock) ==
  LET recorded == [k \in DOMAIN last \cup {key} |-> IF k = key THEN clock ELSE last[k]]
  IN IF transport = "interrupted_before"
       THEN [sent |-> FALSE, why |-> "interrupted", delivered |-> FALSE, last |-> last]
     ELSE IF transport = "failed"
       THEN [sent |-> FALSE, why |-> "transport", delivered |-> FALSE, last |-> last]
     ELSE IF transport = "quit_failed"
       THEN [sent |-> FALSE, why |-> "transport", delivered |-> TRUE, last |-> last]
     ELSE IF transport = "interrupted"
       THEN [sent |-> FALSE, why |-> "interrupted", delivered |-> TRUE, last |-> last]
     ELSE [sent |-> TRUE, why |-> "sent", delivered |-> TRUE, last |-> recorded]

\* send_price_drop_email in a caller that makes no other call meanwhile: the
\* boolean it returns, why, whether the message was handed to the server, and
\* the cooldown map it leaves; why = "raised" when an exception leaves it and
\* why = "interrupted" when the interrupt does, and then nothing is returned.
\* elapsed is the time the SMTP exchange takes: the gate reads the clock
\* before it (line 69), the map is written from the clock after it (line 146).
send_price_drop_email(last, user_email, product_name, product_url, clock, env, config, transport, elapsed) ==
  LET why == before_exchange(last, user_email, product_name, product_url, clock, env, config)
  IN IF why # "exchange"
       THEN [sent |-> FALSE, why |-> why, delivered |-> FALSE, last |-> last]
     ELSE smtp_exchange(last, <<user_email, product_url>>, transport, clock + elapsed)

\* ============================================================= scraper.py
\* Text is a sequence of characters.  A printable ASCII character is the
\* string of that character, tab, line feed, carriage return and form feed are
\* "\t", "\n", "\r" and "\f", and any other character is the string "U+" and the
\* four to six hexadecimal digits of its code point.  A number is <<m, e>>,
\* meaning m / 10^e, with no trailing zero in the fraction.

\* [0-9] of a str pattern
AsciiDigits == {"0", "1", "2", "3", "4", "5", "6", "7", "8", "9"}

\* \d of a str pattern and the digits float() reads: the decimal digits of
\* Unicode (category Nd), each script's zero to nine in a row
DecimalDigitRows ==
  <<
   <<"0", "1", "2", "3", "4", "5", "6", "7", "8", "9">>,
   <<"U+0660", "U+0661", "U+0662", "U+0663", "U+0664", "U+0665", "U+0666", "U+0667", "U+0668", "U+0669">>,
   <<"U+06F0", "U+06F1", "U+06F2", "U+06F3", "U+06F4", "U+06F5", "U+06F6", "U+06F7", "U+06F8", "U+06F9">>,
   <<"U+07C0", "U+07C1", "U+07C2", "U+07C3", "U+07C4", "U+07C5", "U+07C6", "U+07C7", "U+07C8", "U+07C9">>,
   <<"U+0966", "U+0967", "U+0968", "U+0969", "U+096A", "U+096B", "U+096C", "U+096D", "U+096E", "U+096F">>,
   <<"U+09E6", "U+09E7", "U+09E8", "U+09E9", "U+09EA", "U+09EB", "U+09EC", "U+09ED", "U+09EE", "U+09EF">>,
   <<"U+0A66", "U+0A67", "U+0A68", "U+0A69", "U+0A6A", "U+0A6B", "U+0A6C", "U+0A6D", "U+0A6E", "U+0A6F">>,
   <<"U+0AE6", "U+0AE7", "U+0AE8", "U+0AE9", "U+0AEA", "U+0AEB", "U+0AEC", "U+0AED", "U+0AEE", "U+0AEF">>,
   <<"U+0B66", "U+0B67", "U+0B68", "U+0B69", "U+0B6A", "U+0B6B", "U+0B6C", "U+0B6D", "U+0B6E", "U+0B6F">>,
   <<"U+0BE6", "U+0BE7", "U+0BE8", "U+0BE9", "U+0BEA", "U+0BEB", "U+0BEC", "U+0BED", "U+0BEE", "U+0BEF">>,
   <<"U+0C66", "U+0C67", "U+0C68", "U+0C69", "U+0C6A", "U+0C6B", "U+0C6C", "U+0C6D", "U+0C6E", "U+0C6F">>,
   <<"U+0CE6", "U+0CE7", "U+0CE8", "U+0CE9", "U+0CEA", "U+0CEB", "U+0CEC", "U+0CED", "U+0CEE", "U+0CEF">>,
   <<"U+0D66", "U+0D67", "U+0D68", "U+0D69", "U+0D6A", "U+0D6B", "U+0D6C", "U+0D6D", "U+0D6E", "U+0D6F">>,
   <<"U+0DE6", "U+0DE7", "U+0DE8", "U+0DE9", "U+0DEA", "U+0DEB", "U+0DEC", "U+0DED", "U+0DEE", "U+0DEF">>,
   <<"U+0E50", "U+0E51", "U+0E52", "U+0E53", "U+0E54", "U+0E55", "U+0E56", "U+0E57", "U+0E58", "U+0E59">>,
   <<"U+0ED0", "U+0ED1", "U+0ED2", "U+0ED3", "U+0ED4", "U+0ED5", "U+0ED6", "U+0ED7", "U+0ED8", "U+0ED9">>,
   <<"U+0F20", "U+0F21", "U+0F22", "U+0F23", "U+0F24", "U+0F25", "U+0F26", "U+0F27", "U+0F28", "U+0F29">>,
   <<"U+1040", "U+1041", "U+1042", "U+1043", "U+1044", "U+1045", "U+1046", "U+1047", "U+1048", "U+1049">>,
   <<"U+1090", "U+1091", "U+1092", "U+1093", "U+1094", "U+1095", "U+1096", "U+1097", "U+1098", "U+1099">>,
   <<"U+17E0", "U+17E1", "U+17E2", "U+17E3", "U+17E4", "U+17E5", "U+17E6", "U+17E7", "U+17E8", "U+17E9">>,
   <<"U+1810", "U+1811", "U+1812", "U+1813", "U+1814", "U+1815", "U+1816", "U+1817", "U+1818", "U+1819">>,
   <<"U+1946", "U+1947", "U+1948", "U+1949", "U+194A", "U+194B", "U+194C", "U+194D", "U+194E", "U+194F">>,
   <<"U+19D0", "U+19D1", "U+19D2", "U+19D3", "U+19D4", "U+19D5", "U+19D6", "U+19D7", "U+19D8", "U+19D9">>,
   <<"U+1A80", "U+1A81", "U+1A82", "U+1A83", "U+1A84", "U+1A85", "U+1A86", "U+1A87", "U+1A88", "U+1A89">>,
   <<"U+1A90", "U+1A91", "U+1A92", "U+1A93", "U+1A94", "U+1A95", "U+1A96", "U+1A97", "U+1A98", "U+1A99">>,
   <<"U+1B50", "U+1B51", "U+1B52", "U+1B53", "U+1B54", "U+1B55", "U+1B56", "U+1B57", "U+1B58", "U+1B59">>,
   <<"U+1BB0", "U+1BB1", "U+1BB2", "U+1BB3", "U+1BB4", "U+1BB5", "U+1BB6", "U+1BB7", "U+1BB8", "U+1BB9">>,
   <<"U+1C40", "U+1C41", "U+1C42", "U+1C43", "U+1C44", "U+1C45", "U+1C46", "U+1C47", "U+1C48", "U+1C49">>,
   <<"U+1C50", "U+1C51", "U+1C52", "U+1C53", "U+1C54", "U+1C55", "U+1C56", "U+1C57", "U+1C58", "U+1C59">>,
   <<"U+A620", "U+A621", "U+A622", "U+A623", "U+A624", "U+A625", "U+A626", "U+A627", "U+A628", "U+A629">>,
   <<"U+A8D0", "U+A8D1", "U+A8D2", "U+A8D3", "U+A8D4", "U+A8D5", "U+A8D6", "U+A8D7", "U+A8D8", "U+A8D9">>,
   <<"U+A900", "U+A901", "U+A902", "U+A903", "U+A904", "U+A905", "U+A906", "U+A907", "U+A908", "U+A909">>,
   <<"U+A9D0", "U+A9D1", "U+A9D2", "U+A9D3", "U+A9D4", "U+A9D5", "U+A9D6", "U+A9D7", "U+A9D8", "U+A9D9">>,
   <<"U+A9F0", "U+A9F1", "U+A9F2", "U+A9F3", "U+A9F4", "U+A9F5", "U+A9F6", "U+A9F7", "U+A9F8", "U+A9F9">>,
   <<"U+AA50", "U+AA51", "U+AA52", "U+AA53", "U+AA54", "U+AA55", "U+AA56", "U+AA57", "U+AA58", "U+AA59">>,
   <<"U+ABF0", "U+ABF1", "U+ABF2", "U+ABF3", "U+ABF4", "U+ABF5", "U+ABF6", "U+ABF7", "U+ABF8", "U+ABF9">>,
   <<"U+FF10", "U+FF11", "U+FF12", "U+FF13", "U+FF14", "U+FF15", "U+FF16", "U+FF17", "U+FF18", "U+FF19">>,
   <<"U+104A0", "U+104A1", "U+104A2", "U+104A3", "U+104A4", "U+104A5", "U+104A6", "U+104A7", "U+104A8", "U+104A9">>,
   <<"U+10D30", "U+10D31", "U+10D32", "U+10D33", "U+10D34", "U+10D35", "U+10D36", "U+10D37", "U+10D38", "U+10D39">>,
   <<"U+11066", "U+11067", "U+11068", "U+11069", "U+1106A", "U+1106B", "U+1106C", "U+1106D", "U+1106E", "U+1106F">>,
   <<"U+110F0", "U+110F1", "U+110F2", "U+110F3", "U+110F4", "U+110F5", "U+110F6", "U+110F7", "U+110F8", "U+110F9">>,
   <<"U+11136", "U+11137", "U+11138", "U+11139", "U+1113A", "U+1113B", "U+1113C", "U+1113D", "U+1113E", "U+1113F">>,
   <<"U+111D0", "U+111D1", "U+111D2", "U+111D3", "U+111D4", "U+111D5", "U+111D6", "U+111D7", "U+111D8", "U+111D9">>,
   <<"U+112F0", "U+112F1", "U+112F2", "U+112F3", "U+112F4", "U+112F5", "U+112F6", "U+112F7", "U+112F8", "U+112F9">>,
   <<"U+11450", "U+11451", "U+11452", "U+11453", "U+11454", "U+11455", "U+11456", "U+11457", "U+11458", "U+11459">>,
   <<"U+114D0", "U+114D1", "U+114D2", "U+114D3", "U+114D4", "U+114D5", "U+114D6", "U+114D7", "U+114D8", "U+114D9">>,
   <<"U+11650", "U+11651", "U+11652", "U+11653", "U+11654", "U+11655", "U+11656", "U+11657", "U+11658", "U+11659">>,
   <<"U+116C0", "U+116C1", "U+116C2", "U+116C3", "U+116C4", "U+116C5", "U+116C6", "U+116C7", "U+116C8", "U+116C9">>,
   <<"U+11730", "U+11731", "U+11732", "U+11733", "U+11734", "U+11735", "U+11736", "U+11737", "U+11738", "U+11739">>,
   <<"U+118E0", "U+118E1", "U+118E2", "U+118E3", "U+118E4", "U+118E5", "U+118E6", "U+118E7", "U+118E8", "U+118E9">>,
   <<"U+11950", "U+11951", "U+11952", "U+11953", "U+11954", "U+11955", "U+11956", "U+11957", "U+11958", "U+11959">>,
   <<"U+11C50", "U+11C51", "U+11C52", "U+11C53", "U+11C54", "U+11C55", "U+11C56", "U+11C57", "U+11C58", "U+11C59">>,
   <<"U+11D50", "U+11D51", "U+11D52", "U+11D53", "U+11D54", "U+11D55", "U+11D56", "U+11D57", "U+11D58", "U+11D59">>,
   <<"U+11DA0", "U+11DA1", "U+11DA2", "U+11DA3", "U+11DA4", "U+11DA5", "U+11DA6", "U+11DA7", "U+11DA8", "U+11DA9">>,
   <<"U+16A60", "U+16A61", "U+16A62", "U+16A63", "U+16A64", "U+16A65", "U+16A66", "U+16A67", "U+16A68", "U+16A69">>,
   <<"U+16AC0", "U+16AC1", "U+16AC2", "U+16AC3", "U+16AC4", "U+16AC5", "U+16AC6", "U+16AC7", "U+16AC8", "U+16AC9">>,
   <<"U+16B50", "U+16B51", "U+16B52", "U+16B53", "U+16B54", "U+16B55", "U+16B56", "U+16B57", "U+16B58", "U+16B59">>,
   <<"U+1D7CE", "U+1D7CF", "U+1D7D0", "U+1D7D1", "U+1D7D2", "U+1D7D3", "U+1D7D4", "U+1D7D5", "U+1D7D6", "U+1D7D7">>,
   <<"U+1D7D8", "U+1D7D9", "U+1D7DA", "U+1D7DB", "U+1D7DC", "U+1D7DD", "U+1D7DE", "U+1D7DF", "U+1D7E0", "U+1D7E1">>,
   <<"U+1D7E2", "U+1D7E3", "U+1D7E4", "U+1D7E5", "U+1D7E6", "U+1D7E7", "U+1D7E8", "U+1D7E9", "U+1D7EA", "U+1D7EB">>,
   <<"U+1D7EC", "U+1D7ED", "U+1D7EE", "U+1D7EF", "U+1D7F0", "U+1D7F1", "U+1D7F2", "U+1D7F3", "U+1D7F4", "U+1D7F5">>,
   <<"U+1D7F6", "U+1D7F7", "U+1D7F8", "U+1D7F9", "U+1D7FA", "U+1D7FB", "U+1D7FC", "U+1D7FD", "U+1D7FE", "U+1D7FF">>,
   <<"U+1E140", "U+1E141", "U+1E142", "U+1E143", "U+1E144", "U+1E145", "U+1E146", "U+1E147", "U+1E148", "U+1E149">>,
   <<"U+1E2F0", "U+1E2F1", "U+1E2F2", "U+1E2F3", "U+1E2F4", "U+1E2F5", "U+1E2F6", "U+1E2F7", "U+1E2F8", "U+1E2F9">>,
   <<"U+1E950", "U+1E951", "U+1E952", "U+1E953", "U+1E954", "U+1E955", "U+1E956", "U+1E957", "U+1E958", "U+1E959">>,
   <<"U+1FBF0", "U+1FBF1", "U+1FBF2", "U+1FBF3", "U+1FBF4", "U+1FBF5", "U+1FBF6", "U+1FBF7", "U+1FBF8", "U+1FBF9">>
  >>

Digits ==
  UNION {{DecimalDigitRows[r][i] : i \in 1..10} : r \in DOMAIN DecimalDigitRows}

DigitValue(c) ==
  LET r == CHOOSE k \in DOMAIN DecimalDigitRows : \E i \in 1..10 : DecimalDigitRows[k][i] = c
  IN (CHOOSE i \in 1..10 : DecimalDigitRows[r][i] = c) - 1

\* where a match of \d[\d,.]* that is being extended from position j ends
RECURSIVE TokenEnd(_, _)
TokenEnd(text, j) ==
  IF j <= Len(text) /\ text[j] \in Digits \cup {",", "."}
    THEN TokenEnd(text, j + 1)
    ELSE j

\* re.findall(r"\d[\d,.]*", text): the matches, left to right, without overlap
RECURSIVE FindAllFrom(_, _)
FindAllFrom(text, i) ==
  IF i > Len(text) THEN <<>>
  ELSE IF text[i] \in Digits
    THEN LET j == TokenEnd(text, i + 1)
         IN <<SubSeq(text, i, j - 1)>> \o FindAllFrom(text, j)
    ELSE FindAllFrom(text, i + 1)

\* a choice of the last candidate of the greatest length
MaxByLen_last(candidates) ==
  LET longest == CHOOSE n \in {Len(candidates[k]) : k \in DOMAIN candidates} :
                   \A k \in DOMAIN candidates : Len(candidates[k]) <= n
      last == CHOOSE k \in DOMAIN candidates :
                /\ Len(candidates[k]) = longest
                /\ \A h \in DOMAIN candidates : Len(candidates[h]) = longest => h <= k
  IN candidates[last]

\* max(candidates, key=len): the first candidate of the greatest length
MaxByLen(candidates) ==
  LET longest == CHOOSE n \in {Len(candidates[k]) : k \in DOMAIN candidates} :
                   \A k \in DOMAIN candidates : Len(candidates[k]) <= n
      first == CHOOSE k \in DOMAIN candidates :
                 /\ Len(candidates[k]) = longest
                 /\ \A h \in DOMAIN candidates : Len(candidates[h]) = longest => k <= h
  IN candidates[first]

\* str.replace(ch, "") and str.count(ch)
Remove(token, ch) == SelectSeq(token, LAMBDA c : c # ch)
Count(token, ch) == Len(SelectSeq(token, LAMBDA c : c = ch))

\* lines 88-91: keep the first period, drop the later ones
NormalizeDots(token) ==
  IF Count(token, ".") > 1
    THEN LET k == CHOOSE i \in DOMAIN token :
                    token[i] = "." /\ \A h \in 1..(i - 1) : token[h] # "."
             head == SubSeq(token, 1, k - 1)
             tail == Remove(SubSeq(token, k + 1, Len(token)), ".")
         IN head \o <<".">> \o tail
    ELSE token

\* float(token) accepts digits with at most one period among or after them
FloatParses(token) ==
  /\ \A i \in DOMAIN token : token[i] \in Digits \cup {"."}
  /\ Count(token, ".") <= 1
  /\ \E i \in DOMAIN token : token[i] \in Digits

RECURSIVE DigitsValue(_)
DigitsValue(ds) ==
  IF ds = <<>> THEN 0
  ELSE 10 * DigitsValue(SubSeq(ds, 1, Len(ds) - 1)) + DigitValue(ds[Len(ds)])

RECURSIVE Reduce(_, _)
Reduce(m, e) == IF e > 0 /\ m % 10 = 0 THEN Reduce(m \div 10, e - 1) ELSE <<m, e>>

FloatValue(token) ==
  LET ds == Remove(token, ".")
      frac == IF Count(token, ".") = 0 THEN 0
              ELSE Len(token) - (CHOOSE i \in DOMAIN token : token[i] = ".")
  IN Reduce(DigitsValue(ds), frac)

\* _parse_price_text: a number, or ScraperError
parse_price_text(price_text) ==
  LET candidates == FindAllFrom(price_text, 1)
  IN IF candidates = <<>>
       THEN [kind |-> "ScraperError"]
       ELSE LET token == NormalizeDots(Remove(MaxByLen(candidates), ","))
            IN IF FloatParses(token)
                 THEN [kind |-> "ok", price |-> FloatValue(token)]
                 ELSE [kind |-> "ScraperError"]

\* A parsed document, as the extractors query it: each element is <<>> when
\* the document has none, else <<its text>>; strings are the text nodes in
\* document order.
\* _parse_amazon_product
parse_amazon_product(soup) ==
  LET name_el == soup.productTitle
      price_el == IF soup.priceblock_ourprice # <<>> THEN soup.priceblock_ourprice
                  ELSE soup.priceblock_dealprice
  IN IF name_el = <<>> \/ price_el = <<>>
       THEN [kind |-> "ScraperError"]
       ELSE LET p == parse_price_text(price_el[1])
            IN IF p.kind = "ok"
                 THEN [kind |-> "ok", name |-> name_el[1], price |-> p.price]
                 ELSE p

\* _parse_flipkart_product
parse_flipkart_product(soup) ==
  LET name_el == soup.B_NuCI
      price_el == soup.price_div
  IN IF name_el = <<>> \/ price_el = <<>>
       THEN [kind |-> "ScraperError"]
       ELSE LET p == parse_price_text(price_el[1])
            IN IF p.kind = "ok"
                 THEN [kind |-> "ok", name |-> name_el[1], price |-> p.price]
                 ELSE p

\* line 149: re.compile(r"[0-9]") finds a match in the text node
HasDigit(text) == \E i \in DOMAIN text : text[i] \in AsciiDigits

\* an extractor that keeps the last text node with a digit that parses
parse_generic_product_last(soup) ==
  LET name == IF soup.title # <<>> THEN soup.title[1] ELSE "Unknown product"
      text_candidates == SelectSeq(soup.strings, HasDigit)
      parsing == {k \in DOMAIN text_candidates :
                    parse_price_text(text_candidates[k]).kind = "ok"}
  IN IF parsing = {}
       THEN [kind |-> "ScraperError"]
       ELSE LET k == CHOOSE i \in parsing : \A h \in parsing : h <= i
            IN [kind |-> "ok", name |-> name,
                price |-> parse_price_text(text_candidates[k]).price]

\* _parse_generic_product: the first text node with a digit that parses
parse_generic_product(soup) ==
  LET name == IF soup.title # <<>> THEN soup.title[1] ELSE "Unknown product"
      text_candidates == SelectSeq(soup.strings, HasDigit)
      parsing == {k \in DOMAIN text_candidates :
                    parse_price_text(text_candidates[k]).kind = "ok"}
  IN IF parsing = {}
       THEN [kind |-> "ScraperError"]
       ELSE LET k == CHOOSE i \in parsing : \A h \in parsing : i <= h
            IN [kind |-> "ok", name |-> name,
                price |-> parse_price_text(text_candidates[k]).price]

\* str.lower, character by character: the letters whose lower case is one of
\* a to z are A to Z and the Kelvin sign; I with dot above becomes i and a
\* combining dot above.  The other cased letters have a lower case outside a
\* to z, which no comparison of line 183 or 185 tells from the letter itself,
\* and are left as they are.
Lower(c) ==
  CASE c = "A" -> "a" [] c = "B" -> "b" [] c = "C" -> "c" [] c = "D" -> "d"
    [] c = "E" -> "e" [] c = "F" -> "f" [] c = "G" -> "g" [] c = "H" -> "h"
    [] c = "I" -> "i" [] c = "J" -> "j" [] c = "K" -> "k" [] c = "L" -> "l"
    [] c = "M" -> "m" [] c = "N" -> "n" [] c = "O" -> "o" [] c = "P" -> "p"
    [] c = "Q" -> "q" [] c = "R" -> "r" [] c = "S" -> "s" [] c = "T" -> "t"
    [] c = "U" -> "u" [] c = "V" -> "v" [] c = "W" -> "w" [] c = "X" -> "x"
    [] c = "Y" -> "y" [] c = "Z" -> "z" [] c = "U+212A" -> "k"
    [] OTHER -> c

RECURSIVE LowerAll(_)
LowerAll(str) ==
  IF str = <<>> THEN <<>>
  ELSE (IF str[1] = "U+0130" THEN <<"i", "U+0307">> ELSE <<Lower(str[1])>>)
         \o LowerAll(Tail(str))

\* the characters str.strip() removes: those str.isspace() holds of
Whitespace ==
  {" ", "\t", "\n", "\r", "\f", "U+000B", "U+001C", "U+001D", "U+001E", "U+001F",
   "U+0085", "U+00A0", "U+1680", "U+2000", "U+2001", "U+2002", "U+2003", "U+2004",
   "U+2005", "U+2006", "U+2007", "U+2008", "U+2009", "U+200A", "U+2028", "U+2029",
   "U+202F", "U+205F", "U+3000"}

RECURSIVE Strip(_)
Strip(str) ==
  IF str # <<>> /\ str[1] \in Whitespace THEN Strip(Tail(str))
  ELSE IF str # <<>> /\ str[Len(str)] \in Whitespace
    THEN Strip(SubSeq(str, 1, Len(str) - 1))
  ELSE str

StripLower(str) == LowerAll(Strip(str))

AMAZON == <<"a", "m", "a", "z", "o", "n">>
FLIPKART == <<"f", "l", "i", "p", "k", "a", "r", "t">>

\* a page html.parser rejects: BeautifulSoup(html, "html.parser") of line 180
\* raises ParserRejectedMarkup for it; every other page is given as what the
\* parser makes of it
RejectedMarkup == [markup |-> "<![abc]>"]
\* a site_name that is not a string: the number 5
NotAString == <<"int", 5>>

\* a selection that compares the site value as given
parse_product_details_verbatim(soup, site_name) ==
  IF soup = RejectedMarkup \/ site_name = NotAString THEN [kind |-> "Exception"]
  ELSE
  LET site == IF site_name = <<>> THEN <<>> ELSE site_name[1]
      r == IF site = AMAZON THEN parse_amazon_product(soup)
           ELSE IF site = FLIPKART THEN parse_flipkart_product(soup)
           ELSE parse_generic_product(soup)
  IN IF r.kind = "ok"
       THEN [kind |-> "ok", product_name |-> r.name, current_price |-> r.price]
       ELSE r

\* parse_product_details: site_name is <<>> for None, else <<the string>>.
\* What the parser raises (line 180) and the AttributeError of a site_name
\* without strip() (line 181) leave the function as they are.
parse_product_details(soup, site_name) ==
  IF soup = RejectedMarkup \/ site_name = NotAString THEN [kind |-> "Exception"]
  ELSE
  LET site == StripLower(IF site_name = <<>> THEN <<>> ELSE site_name[1])
      r == IF site = AMAZON THEN parse_amazon_product(soup)
           ELSE IF site = FLIPKART THEN parse_flipkart_product(soup)
           ELSE parse_generic_product(soup)
  IN IF r.kind = "ok"
       THEN [kind |-> "ok", product_name |-> r.name, current_price |-> r.price]
       ELSE r

\* fetch_product_page: a requests.RequestException (no connection, timeout,
\* error status) becomes ScraperError; otherwise the page
fetch_product_page(response) ==
  IF response.kind = "RequestException"
    THEN [kind |-> "ScraperError"]
    ELSE [kind |-> "ok", page |-> response.page]

\* get_product_info: what the caller gets for this url, site and response
get_product_info(url, site_name, response) ==
  LET html == fetch_product_page(response)
  IN IF html.kind # "ok" THEN html
     ELSE LET details == parse_product_details(html.page, site_name)
          IN IF details.kind # "ok" THEN details
             ELSE [kind |-> "ok", product_name |-> details.product_name,
                   current_price |-> details.current_price,
                   product_url |-> url, site_name |-> site_name]

\* ==================================================== scheduler_module.py

\* what get_product_info can hand to the cycle: a ScraperError, any other
\* exception, product info whose price float() rejects, or product info with
\* a numeric price and a name; the name that cannot be encoded comes with the
\* price below the target
NoName == ""
ResolverOutcomes ==
  {[kind |-> "ScraperError", price |-> NoPrice, name |-> NoName],
   [kind |-> "Exception", price |-> NoPrice, name |-> NoName],
   [kind |-> "bad_price", price |-> NoPrice, name |-> NoName]}
  \cup {[kind |-> "ok", price |-> p, name |-> "Widget"] : p \in Prices}
  \cup {[kind |-> "ok", price |-> 1, name |-> LoneSurrogate]}

Keys == Recipients \X Urls

NoLog == [attempts |-> 0, result |-> "pending", price |-> NoPrice, name |-> NoName,
          calls |-> 0, sent |-> 0, why |-> "none"]

\* a loop that stays on the product in hand
NextIndex_retry(i) == i

\* the for loop's `continue` / end of body: the next product, or the summary
NextIndex(i) == i + 1

Advance ==
  /\ idx' = NextIndex(idx)
  /\ pc' = IF NextIndex(idx) <= Len(listed) THEN "scrape" ELSE "summary"

\* what initialize_storage() can find in price_tracker.db: no rows, or the
\* rows an earlier run of the program has left (CREATE TABLE IF NOT EXISTS
\* keeps them): a product added at the menu with its first snapshot, active
\* or switched off since
StoredDatabases ==
  {[products |-> <<>>, price_history |-> <<>>]}
  \cup {[products |-> save_product(<<>>, <<>>, "u1", 2, "other", a),
         price_history |-> save_price_snapshot(<<>>, 1, 1, "INR", None, 0)] : a \in BOOLEAN}

\* a process that has initialised the store: the tables are what the file
\* held, the cooldown map of the notifier is empty
Started ==
  /\ \E db \in StoredDatabases :
       products = db.products /\ price_history = db.price_history
  /\ LAST_NOTIFIED = <<>>
  /\ now = 0
  /\ ticks = 0
  /\ listed = <<>>
  /\ idx = 0
  /\ info = NoPrice
  /\ processed = 0
  /\ successful_scrapes = 0
  /\ notifications_sent = 0
  /\ summary = <<>>
  /\ log = <<>>
  /\ histBase = 0
  /\ gateBase = {}
  /\ suppressed = [k \in Keys |-> {}]
  /\ sentTimes = [k \in Keys |-> <<>>]
  /\ stopCause = "none"
  /\ calls = <<>>
  /\ rq = <<>>
  /\ rs = <<>>
  /\ fq = <<>>
  /\ fr = <<>>

\* main() at its menu
ProcessStart ==
  /\ Started
  /\ \E e \in Environments : recipient_env = e.recipient /\ smtp_env = e.smtp
  /\ pc = "menu"

\* the CLI and the scheduler pass config_path = None
Init ==
  /\ ProcessStart
  /\ config_file = NoConfigFile

\* ---- input_module.py
\* a validation that accepts every number
validate_target_price_unchecked(raw_value) ==
  IF raw_value.kind = "nan" THEN [ok |-> TRUE, nan |-> TRUE, value |-> 0]
  ELSE [ok |-> TRUE, nan |-> FALSE, value |-> raw_value.value]

\* _validate_target_price: ValueError when float(raw_value) <= 0; nan <= 0
\* is false, so the typed "nan" is returned as a valid price
validate_target_price(raw_value) ==
  IF raw_value.kind = "nan" THEN [ok |-> TRUE, nan |-> TRUE, value |-> 0]
  ELSE IF raw_value.value <= 0 THEN [ok |-> FALSE, nan |-> FALSE, value |-> raw_value.value]
  ELSE [ok |-> TRUE, nan |-> FALSE, value |-> raw_value.value]

\* ---- the store's operations, used while the scheduler is not running
\* (the flows of the menu are followed while the process has a check cycle
\* left, ticks < MaxTicks: after its last cycle the process is not followed)
\* what the page of a product just added can give: every failure, and of the
\* prices the one below the target
FirstScrapes == {r \in ResolverOutcomes : r.kind = "ok" => r.price = 1}

\* _add_product_flow: the prompt repeats until the typed price passes the
\* validation and gives an active product; the product is saved, then the
\* page is scraped and a first snapshot saved.  An exception of the product
\* write (the database is locked; a NaN target fails NOT NULL) leaves main()
\* with nothing saved.  A ScraperError is reported and the flow returns; any
\* other exception of the resolver, of float(), of printing a name the
\* output stream cannot encode (line 56) or of the snapshot write leaves
\* main() with the product saved.
AddProduct ==
  /\ pc = "menu"
  /\ ticks < MaxTicks
  /\ Len(products) < MaxProducts
  /\ \E u \in Urls, raw \in TypedTargets, s \in Sites, product_written \in BOOLEAN,
        r \in FirstScrapes, write_ok \in BOOLEAN :
       LET target == validate_target_price(raw)
           product_id == Len(products) + 1
       IN /\ target.ok
          /\ target.nan => ~product_written
          /\ IF ~product_written
               THEN /\ products' = products
                    /\ price_history' = price_history
                    /\ pc' = "crashed"
             ELSE /\ products' = save_product(products, <<>>, u, target.value, s, TRUE)
                  /\ IF r.kind = "ok" /\ write_ok
                       THEN /\ Len(price_history) < MaxSnapshots
                            /\ price_history' = save_price_snapshot(price_history, product_id,
                                                                    r.price, "INR", None, now)
                            /\ pc' = "menu"
                     ELSE IF r.kind = "ScraperError"
                       THEN /\ write_ok
                            /\ price_history' = price_history
                            /\ pc' = "menu"
                     ELSE /\ r.kind = "ok" \/ write_ok
                          /\ price_history' = price_history
                          /\ pc' = "crashed"
  /\ UNCHANGED <<LAST_NOTIFIED, now, envVars, ticks, cycleVars,
                 sentTimes, suppressed, stopCause, calls, resolverVars, callVars>>

\* _list_products_flow (lines 65-80): list_products reads the table and the
\* rows are printed, which changes nothing; an exception of the read (the
\* database is locked) is caught nowhere and leaves main()
ListProductsFlow ==
  /\ pc = "menu"
  /\ ticks < MaxTicks
  /\ pc' = "crashed"
  /\ UNCHANGED <<storeVars, LAST_NOTIFIED, now, envVars, ticks, cycleVars,
                 sentTimes, suppressed, stopCause, calls, resolverVars, callVars>>

\* _view_price_history_flow (lines 119-162): the product is chosen from
\* list_products, then get_price_history, get_min_max_avg_price and
\* get_price_trend_direction read the table and their results are printed,
\* which changes nothing; an exception of a read is caught nowhere and leaves
\* main()
ViewPriceHistoryFlow ==
  /\ pc = "menu"
  /\ ticks < MaxTicks
  /\ pc' = "crashed"
  /\ UNCHANGED <<storeVars, LAST_NOTIFIED, now, envVars, ticks, cycleVars,
                 sentTimes, suppressed, stopCause, calls, resolverVars, callVars>>

\* _toggle_product_active_flow (lines 165-177): the product is chosen from
\* list_products (an id that is no number or names no product returns with
\* nothing changed) and its flag is written negated; an exception of the
\* read or of the write (the database is locked) is caught nowhere and leaves
\* main() with the flag as it was
SetProductActive ==
  /\ pc = "menu"
  /\ ticks < MaxTicks
  /\ \E written \in BOOLEAN :
       IF written
         THEN /\ \E i \in DOMAIN products :
                   products' = set_product_active(products, products[i].id,
                                                  ~products[i].active)
              /\ pc' = "menu"
         ELSE /\ products' = products
              /\ pc' = "crashed"
  /\ UNCHANGED <<price_history, LAST_NOTIFIED, now, envVars, ticks, cycleVars,
                 sentTimes, suppressed, stopCause, calls, resolverVars, callVars>>

\* ---- schedule_price_checks
\* with the schedule library the first run is one interval away; the custom
\* loop runs the job at once
StartMonitoring ==
  /\ pc = "menu"
  /\ ticks < MaxTicks
  /\ \E use_schedule_library \in BOOLEAN :
       IF use_schedule_library
         THEN pc' = "sleep" /\ ticks' = ticks
         ELSE pc' = "list" /\ ticks' = ticks + 1
  /\ stopCause' = "none"
  /\ UNCHANGED <<storeVars, LAST_NOTIFIED, now, envVars, cycleVars, sentTimes, suppressed, calls, resolverVars, callVars>>

\* the loop sleeps until the next run is due, then calls job_function()
Wake ==
  /\ pc = "sleep"
  /\ ticks < MaxTicks
  /\ \E d \in Delays : now' = now + d
  /\ ticks' = ticks + 1
  /\ pc' = "list"
  /\ UNCHANGED <<storeVars, LAST_NOTIFIED, envVars, cycleVars, sentTimes, suppressed, stopCause, calls, resolverVars, callVars>>

\* KeyboardInterrupt: raised wherever the main thread is; no handler of the
\* cycle catches it (they catch Exception), schedule_price_checks does
SchedulerPcs == {"sleep", "list", "scrape", "persist", "notify", "summary"}

\* the locals of a cycle are gone once _run_price_check_once is left
DropLocals ==
  /\ listed' = <<>>
  /\ idx' = 0
  /\ info' = NoPrice
  /\ processed' = 0
  /\ successful_scrapes' = 0
  /\ notifications_sent' = 0
  /\ log' = <<>>
  /\ histBase' = 0
  /\ gateBase' = {}

\* lines 139-140 / 146-147: "Scheduler stopped." and back to the menu
Interrupt ==
  /\ pc \in SchedulerPcs
  /\ pc' = "menu"
  /\ stopCause' = "interrupt"
  /\ DropLocals
  /\ summary' = <<>>
  /\ UNCHANGED <<storeVars, LAST_NOTIFIED, now, envVars, ticks, sentTimes, suppressed, calls, resolverVars, callVars>>

\* ---- _run_price_check_once
\* lines 33-47: list the active products; an exception or an empty list returns
ListProducts ==
  /\ pc = "list"
  /\ \E list_ok \in BOOLEAN :
       LET got == IF list_ok THEN get_all_products(products, "True") ELSE <<>>
       IN /\ listed' = got
          /\ log' = [i \in 1..Len(got) |-> NoLog]
          /\ IF got = <<>>
               THEN /\ pc' = "sleep"
                    /\ idx' = 0
                    /\ histBase' = 0
                    /\ gateBase' = {}
               ELSE /\ pc' = "scrape"
                    /\ idx' = 1
                    /\ histBase' = Len(price_history)
                    /\ gateBase' = {k \in Keys : can_send(LAST_NOTIFIED, k, now)}
  /\ info' = NoPrice
  /\ processed' = 0
  /\ successful_scrapes' = 0
  /\ notifications_sent' = 0
  /\ summary' = <<>>
  /\ UNCHANGED <<storeVars, LAST_NOTIFIED, now, envVars, ticks, sentTimes, suppressed, stopCause, calls, resolverVars, callVars>>

\* a loop body that leaves successful_scrapes for after the snapshot write
Scrape_uncounted ==
  /\ pc = "scrape"
  /\ processed' = processed + 1
  /\ \E r \in ResolverOutcomes :
       /\ r.kind = "ok" => Len(price_history) < MaxSnapshots
       /\ log' = [log EXCEPT ![idx].attempts = @ + 1, ![idx].result = r.kind,
                             ![idx].price = r.price, ![idx].name = r.name]
       /\ successful_scrapes' = successful_scrapes
       /\ IF r.kind = "ok"
            THEN /\ info' = r.price
                 /\ pc' = "persist"
                 /\ idx' = idx
            ELSE /\ info' = NoPrice
                 /\ Advance
  /\ UNCHANGED <<storeVars, LAST_NOTIFIED, now, envVars, ticks, listed, notifications_sent,
                 summary, histBase, gateBase, sentTimes, suppressed, stopCause, calls, resolverVars, callVars>>

\* lines 49-71: take the next product, call the resolver, coerce the price
Scrape ==
  /\ pc = "scrape"
  /\ processed' = processed + 1
  /\ \E r \in ResolverOutcomes :
       /\ r.kind = "ok" => Len(price_history) < MaxSnapshots
       /\ log' = [log EXCEPT ![idx].attempts = @ + 1, ![idx].result = r.kind,
                             ![idx].price = r.price, ![idx].name = r.name]
       /\ IF r.kind = "ok"
            THEN /\ info' = r.price
                 /\ successful_scrapes' = successful_scrapes + 1
                 /\ pc' = "persist"
                 /\ idx' = idx
            ELSE /\ info' = NoPrice
                 /\ successful_scrapes' = successful_scrapes
                 /\ Advance
  /\ UNCHANGED <<storeVars, LAST_NOTIFIED, now, envVars, ticks, listed, notifications_sent,
                 summary, histBase, gateBase, sentTimes, suppressed, stopCause, calls, resolverVars, callVars>>

\* line 72: add_price_snapshot; an exception of the store is caught nowhere
Persist ==
  /\ pc = "persist"
  /\ \E write_ok \in BOOLEAN :
       IF write_ok
         THEN /\ price_history' = add_price_snapshot(price_history, listed[idx].id, info, None, now)
              /\ pc' = "notify"
              /\ stopCause' = stopCause
         ELSE /\ price_history' = price_history
              /\ pc' = "crashed"
              /\ stopCause' = "error"
  /\ UNCHANGED <<products, LAST_NOTIFIED, now, envVars, ticks, cycleVars, sentTimes, suppressed, calls, resolverVars, callVars>>

\* lines 74-97: compare with the target and, if met and a recipient is set,
\* notify.  An interrupt that arrives in the SMTP exchange leaves the notifier
\* and the cycle for the menu; an exception that leaves the notifier is caught
\* nowhere and ends the process.
Notify ==
  /\ pc = "notify"
  /\ LET product == listed[idx]
         analysis == analyze_price(info, product.target_price)
     IN IF analysis.is_below_or_equal /\ recipient_env # ""
          THEN \E transport \in TransportOutcomes, elapsed \in SendDurations :
                 LET r == send_price_drop_email(LAST_NOTIFIED, recipient_env,
                                                log[idx].name, product.product_url, now,
                                                smtp_env, NoConfigFile, transport, elapsed)
                     key == <<recipient_env, product.product_url>>
                     smtp_tried == r.why \in {"transport", "sent", "interrupted"}
                 IN /\ LAST_NOTIFIED' = r.last
                    /\ now' = IF smtp_tried THEN now + elapsed ELSE now
                    /\ sentTimes' = IF r.delivered
                                      THEN [sentTimes EXCEPT ![key] =
                                              Append(@, [from |-> now, to |-> now + elapsed])]
                                      ELSE sentTimes
                    /\ suppressed' = IF r.why = "cooldown"
                                       THEN [suppressed EXCEPT ![key] = @ \cup {now}]
                                       ELSE suppressed
                    /\ IF r.why = "interrupted"
                         THEN /\ pc' = "menu"
                              /\ stopCause' = "interrupt_in_send"
                              /\ DropLocals
                              /\ summary' = <<>>
                       ELSE IF r.why = "raised"
                         THEN /\ pc' = "crashed"
                              /\ stopCause' = "send_error"
                              /\ log' = [log EXCEPT ![idx].calls = @ + 1, ![idx].why = r.why]
                              /\ UNCHANGED <<listed, idx, info, processed, successful_scrapes,
                                             notifications_sent, summary, histBase, gateBase>>
                         ELSE /\ notifications_sent' =
                                   notifications_sent + (IF r.sent THEN 1 ELSE 0)
                              /\ log' = [log EXCEPT ![idx].calls = @ + 1,
                                                    ![idx].sent = @ + (IF r.sent THEN 1 ELSE 0),
                                                    ![idx].why = r.why]
                              /\ Advance
                              /\ UNCHANGED <<listed, info, processed, successful_scrapes,
                                             summary, histBase, gateBase, stopCause>>
          ELSE /\ UNCHANGED <<LAST_NOTIFIED, now, notifications_sent, sentTimes, suppressed,
                              listed, info, processed, successful_scrapes, summary,
                              histBase, gateBase, stopCause>>
               /\ log' = [log EXCEPT ![idx].why =
                            IF analysis.is_below_or_equal THEN "no_recipient" ELSE "above"]
               /\ Advance
  /\ UNCHANGED <<storeVars, envVars, ticks, calls, resolverVars, callVars>>

\* lines 99-103: the run summary is printed and the function returns
Summary ==
  /\ pc = "summary"
  /\ summary' = <<[processed |-> processed, successful_scrapes |-> successful_scrapes,
                   notifications_sent |-> notifications_sent]>>
  /\ pc' = "sleep"
  /\ DropLocals
  /\ UNCHANGED <<storeVars, LAST_NOTIFIED, now, envVars, ticks, sentTimes, suppressed, stopCause, calls, resolverVars, callVars>>

Next ==
  \/ AddProduct
  \/ ListProductsFlow
  \/ ViewPriceHistoryFlow
  \/ SetProductActive
  \/ StartMonitoring
  \/ Wake
  \/ Interrupt
  \/ ListProducts
  \/ Scrape
  \/ Persist
  \/ Notify
  \/ Summary

Spec == Init /\ [][Next]_vars

\* ===================================================== demo.py: run_demo
\* the two samples of lines 36-47; their urls are the two urls of the model
DemoSamples ==
  <<[url |-> "u1", site |-> "amazon", target_price |-> 50000],
    [url |-> "u2", site |-> "flipkart", target_price |-> 1000]>>

\* what get_product_info can hand to run_demo: the outcomes the cycle can get
\* and a price between the two targets
DemoOutcomes ==
  ResolverOutcomes \cup {[kind |-> "ok", price |-> 2000, name |-> "Widget"]}

\* run_demo after initialize_storage (line 34), before the first sample
DemoInit ==
  /\ Started
  /\ \E e \in Environments : recipient_env = e.recipient /\ smtp_env = e.smtp
  /\ pc = "demo"
  /\ config_file = NoConfigFile

\* lines 51-106, one pass of the loop: the sample is added as a new product,
\* the page scraped, the snapshot saved and the price compared; if the target
\* is met and a recipient is set the notifier is called.  Only ScraperError is
\* caught (line 73): any other exception of the product write, of the
\* resolver, of float() (line 78), of printing a name the output stream
\* cannot encode (line 79), of the snapshot write or of the notifier ends
\* the process, and so does an interrupt in the SMTP exchange.
DemoProduct ==
  /\ pc = "demo"
  /\ idx < Len(DemoSamples)
  /\ Len(products) < MaxProducts
  /\ Len(price_history) < MaxSnapshots
  /\ \E product_written \in BOOLEAN, r \in DemoOutcomes, printed \in BOOLEAN,
        write_ok \in BOOLEAN, transport \in TransportOutcomes, elapsed \in SendDurations :
       LET sample == DemoSamples[idx + 1]
           product_id == Len(products) + 1
           continue == IF idx + 1 = Len(DemoSamples) THEN "demo_done" ELSE "demo"
           analysis == analyze_price(r.price, sample.target_price)
           key == <<recipient_env, sample.url>>
           sent == send_price_drop_email(LAST_NOTIFIED, recipient_env, r.name, sample.url,
                                         now, smtp_env, NoConfigFile, transport, elapsed)
           smtp_tried == sent.why \in {"transport", "sent", "interrupted"}
       IN IF ~product_written
            THEN /\ pc' = "crashed"
                 /\ UNCHANGED <<storeVars, idx, LAST_NOTIFIED, now, sentTimes, suppressed>>
          ELSE IF r.kind = "ScraperError"
            THEN /\ products' = add_product(products, sample.url, sample.target_price,
                                            sample.site, TRUE)
                 /\ idx' = idx + 1
                 /\ pc' = continue
                 /\ UNCHANGED <<price_history, LAST_NOTIFIED, now, sentTimes, suppressed>>
          ELSE IF r.kind # "ok" \/ (~utf8_encodable(r.name) /\ ~printed) \/ ~write_ok
            THEN /\ products' = add_product(products, sample.url, sample.target_price,
                                            sample.site, TRUE)
                 /\ pc' = "crashed"
                 /\ UNCHANGED <<price_history, idx, LAST_NOTIFIED, now, sentTimes, suppressed>>
          ELSE /\ products' = add_product(products, sample.url, sample.target_price,
                                          sample.site, TRUE)
               /\ price_history' = add_price_snapshot(price_history, product_id, r.price, None, now)
               /\ IF analysis.is_below_or_equal /\ recipient_env # ""
                    THEN /\ LAST_NOTIFIED' = sent.last
                         /\ now' = IF smtp_tried THEN now + elapsed ELSE now
                         /\ sentTimes' = IF sent.delivered
                                           THEN [sentTimes EXCEPT ![key] =
                                                   Append(@, [from |-> now, to |-> now + elapsed])]
                                           ELSE sentTimes
                         /\ suppressed' = IF sent.why = "cooldown"
                                            THEN [suppressed EXCEPT ![key] = @ \cup {now}]
                                            ELSE suppressed
                         /\ IF sent.why = "interrupted"
                              THEN pc' = "interrupted" /\ idx' = idx
                            ELSE IF sent.why = "raised"
                              THEN pc' = "crashed" /\ idx' = idx
                              ELSE pc' = continue /\ idx' = idx + 1
                    ELSE /\ idx' = idx + 1
                         /\ pc' = continue
                         /\ UNCHANGED <<LAST_NOTIFIED, now, sentTimes, suppressed>>
  /\ UNCHANGED <<envVars, ticks, listed, info, processed, successful_scrapes,
                 notifications_sent, summary, log, histBase, gateBase, stopCause, calls,
                 resolverVars, callVars>>

DemoNext == DemoProduct

DemoSpec == DemoInit /\ [][DemoNext]_vars

\* ======================================= the notifier under any caller
\* send_price_drop_email called directly, by any callers, with any recipient
\* and url, at any time.  A call is two steps, for the SMTP exchange waits for
\* the network between the read of the cooldown map (line 98) and its write
\* (line 146), and callers in other threads make their calls meanwhile.

\* minutes between the last step of the notifier, the begin or the end of a
\* call, and the next call
Gaps == {0, 59, 60}

\* a call is in its SMTP exchange
InExchange(k) == calls[k].why = "exchange"

\* at time t no exchange has lasted longer than an exchange may take (every
\* step of it has a timeout, lines 135-137)
ExchangesInTime(t) ==
  \A k \in DOMAIN calls : InExchange(k) => \E d \in SendDurations : t <= calls[k].at + d

\* a call begins and runs up to the SMTP exchange, or ends before it
NotifierCall ==
  /\ Len(calls) < MaxCalls
  /\ Cardinality({k \in DOMAIN calls : InExchange(k)}) < MaxInFlight
  /\ \E user_email \in Recipients, product_name \in ProductNames, product_url \in Urls,
        gap \in Gaps :
       LET key == <<user_email, product_url>>
           clock == now + gap
           why == before_exchange(LAST_NOTIFIED, user_email, product_name, product_url,
                                  clock, smtp_env, config_file)
       IN /\ ExchangesInTime(clock)
          /\ now' = clock
          /\ suppressed' = IF why = "cooldown"
                             THEN [suppressed EXCEPT ![key] = @ \cup {clock}]
                             ELSE suppressed
          /\ calls' = Append(calls,
                        [key |-> key, at |-> clock,
                         had |-> key \in DOMAIN LAST_NOTIFIED,
                         since |-> IF key \in DOMAIN LAST_NOTIFIED
                                     THEN clock - LAST_NOTIFIED[key] ELSE 0,
                         returned |-> {j \in DOMAIN calls : ~InExchange(j)},
                         why |-> why, sent |-> FALSE, delivered |-> FALSE,
                         done |-> clock])
  /\ UNCHANGED <<storeVars, LAST_NOTIFIED, sentTimes, envVars, schedulerVars, resolverVars,
                 callVars>>

\* the SMTP exchange of a call ends, and the call with it
NotifierExchange ==
  /\ \E k \in DOMAIN calls, transport \in TransportOutcomes, elapsed \in SendDurations :
       LET ended == calls[k].at + elapsed
           r == smtp_exchange(LAST_NOTIFIED, calls[k].key, transport, ended)
       IN /\ InExchange(k)
          /\ ended >= now
          /\ ExchangesInTime(ended)
          /\ now' = ended
          /\ LAST_NOTIFIED' = r.last
          /\ sentTimes' = IF r.delivered
                            THEN [sentTimes EXCEPT ![calls[k].key] =
                                    Append(@, [from |-> calls[k].at, to |-> now'])]
                            ELSE sentTimes
          /\ calls' = [calls EXCEPT ![k] =
                         [@ EXCEPT !.why = r.why, !.sent = r.sent,
                                   !.delivered = r.delivered, !.done = now']]
  /\ UNCHANGED <<storeVars, suppressed, envVars, schedulerVars, resolverVars, callVars>>

NotifierNext == NotifierCall \/ NotifierExchange

\* the caller's environment and the file its config_path names
NotifierEnvironments ==
  {[smtp |-> SmtpFull, config |-> NoConfigFile],
   [smtp |-> SmtpNoPassword, config |-> NoConfigFile],
   [smtp |-> SmtpPortZero, config |-> NoConfigFile]}
  \cup {[smtp |-> SmtpNoPassword, config |-> c] : c \in ConfigFiles \ {NoConfigFile}}

\* a process that has imported the notifier and made no call yet
NotifierInit ==
  /\ Started
  /\ pc = "menu"
  /\ products = <<>>
  /\ recipient_env = "r1"
  /\ \E e \in NotifierEnvironments : smtp_env = e.smtp /\ config_file = e.config

NotifierSpec == NotifierInit /\ [][NotifierNext]_vars

\* ======================================= the resolver on any page
NoElement == <<>>
T_Rs1234 == <<"R", "s", ".", " ", "1", ",", "2", "3", "4", ".", "0", "0">>
T_Mrp999 == <<"M", "R", "P", ":", " ", "9", "9", "9">>
T_NoDigits == <<"n", "o", " ", "d", "i", "g", "i", "t", "s">>

Pages ==
  [title : {NoElement, <<"Demo Product">>},
   productTitle : {NoElement, <<"Widget">>},
   priceblock_ourprice : {NoElement, <<T_Mrp999>>, <<T_NoDigits>>},
   priceblock_dealprice : {NoElement, <<T_Rs1234>>},
   B_NuCI : {NoElement, <<"Gadget">>},
   price_div : {NoElement, <<T_Rs1234>>, <<T_NoDigits>>},
   strings : {<<>>, <<T_NoDigits>>, <<T_NoDigits, T_Rs1234>>, <<T_Mrp999, T_Rs1234>>}]

Responses ==
  {[kind |-> "RequestException"]} \cup {[kind |-> "ok", page |-> p] : p \in Pages}
    \cup {[kind |-> "ok", page |-> RejectedMarkup]}

\* site_name: None, "", "amazon", " Amazon ", "amazon" and a line feed,
\* "FLIPKART", "other", and the number 5
SiteValues ==
  {<<>>, NotAString, <<<<>>>>, <<AMAZON>>, <<<<" ", "A", "m", "a", "z", "o", "n", " ">>>>,
   <<<<"a", "m", "a", "z", "o", "n", "\n">>>>,
   <<<<"F", "L", "I", "P", "K", "A", "R", "T">>>>, <<<<"o", "t", "h", "e", "r">>>>}

Requests ==
  [url : Urls, site_name : SiteValues, response : Responses]

\* the caller holds one request; nothing else of the program has run
ResolverInit ==
  /\ Init
  /\ products = <<>>
  /\ recipient_env = ""
  /\ smtp_env = SmtpFull

Ask ==
  /\ rq = <<>>
  /\ \E q \in Requests : rq' = <<q>>
  /\ UNCHANGED <<storeVars, LAST_NOTIFIED, now, envVars, schedulerVars, sentTimes, suppressed, calls, rs, callVars>>

Resolve ==
  /\ rq # <<>>
  /\ rs = <<>>
  /\ rs' = <<get_product_info(rq[1].url, rq[1].site_name, rq[1].response)>>
  /\ UNCHANGED <<storeVars, LAST_NOTIFIED, now, envVars, schedulerVars, sentTimes, suppressed, calls, rq, callVars>>

ResolverNext == Ask \/ Resolve

ResolverSpec == ResolverInit /\ [][ResolverNext]_vars

\* =========================================== the store, called directly
\* the product ids a caller asks about
ProductIds == {1, 2}

\* A caller of storage.py saves, rewrites and toggles products with values of
\* its choice.
StoreSave ==
  /\ \E id \in {<<>>} \cup {<<i>> : i \in 1..MaxProducts},
        u \in Urls, t \in RawTargets, s \in Sites, a \in BOOLEAN :
       /\ id = <<>> => Len(products) < MaxProducts
       /\ products' = save_product(products, id, u, t, s, a)
  /\ UNCHANGED <<price_history, LAST_NOTIFIED, now, envVars, schedulerVars, sentTimes, suppressed, calls,
                 resolverVars, callVars>>

StoreSetActive ==
  /\ \E i \in 1..MaxProducts, a \in BOOLEAN :
       products' = set_product_active(products, i, a)
  /\ UNCHANGED <<price_history, LAST_NOTIFIED, now, envVars, schedulerVars, sentTimes, suppressed, calls,
                 resolverVars, callVars>>

\* prices a caller hands to add_price_snapshot
SnapshotPrices == {1, 2}

\* add_price_snapshot for any product id, a minute after the last call; for
\* scraped_at the caller passes nothing, or the datetime object utcnow()
\* returns (its microseconds as in stamp_of)
StoreSnapshot ==
  /\ Len(price_history) < MaxHistory
  /\ now' = now + 1
  /\ \E product_id \in ProductIds, price \in SnapshotPrices,
        scraped_at \in {None, <<[kind |-> "datetime", minute |-> now',
                                 micro |-> Len(price_history) + 1]>>} :
       price_history' = add_price_snapshot(price_history, product_id, price, scraped_at, now')
  /\ UNCHANGED <<products, LAST_NOTIFIED, envVars, schedulerVars, sentTimes, suppressed, calls,
                 resolverVars, callVars>>

StoreNext == StoreSave \/ StoreSetActive \/ StoreSnapshot

StoreInit ==
  /\ Init
  /\ recipient_env = ""

StoreSpec == StoreInit /\ [][StoreNext]_vars

\* ======================================= the program's functions, one call
\* A caller makes one call of one function with arguments of its choice.

\* prices given to analyze_price, in whole currency units
AnalyzerPrices == {0 - 100, 0, 1, 90, 99, 100, 101, 120}

AnalyzeCalls ==
  [fn : {"analyze_price"}, current_price : AnalyzerPrices, target_price : AnalyzerPrices]

\* texts given to _parse_price_text: every text of up to MaxTextLen characters
\* over digits (the Devanagari two among them), the two separators and a
\* blank, and the texts of the examples
TextAlphabet == {"0", "1", "2", "U+0968", ",", ".", " "}
ShortTexts == UNION {[1..n -> TextAlphabet] : n \in 0..MaxTextLen}
T_TwoPeriods == <<"1", ".", "2", "3", "4", ".", "5", "6">>
PriceTexts == ShortTexts \cup {T_Rs1234, T_Mrp999, T_NoDigits, T_TwoPeriods}

ParseCalls == [fn : {"_parse_price_text"}, price_text : PriceTexts]

\* documents given to _parse_generic_product: a title element or none, whose
\* text is also the first text node of the document, then the body's text nodes
T_Only1234 == <<"O", "n", "l", "y", " ", "R", "s", ".", " ", "1", ",", "2", "3", "4", ".",
                "0", "0", " ", "t", "o", "d", "a", "y", "!">>
T_DemoProduct == <<"D", "e", "m", "o", " ", "P", "r", "o", "d", "u", "c", "t">>
T_Phone15 == <<"P", "h", "o", "n", "e", " ", "1", "5">>
T_2For1 == <<"2", " ", "f", "o", "r", " ", "1", ".", "5", "0">>

Heads ==
  {[title |-> NoElement, nodes |-> <<>>],
   [title |-> <<"Demo Product">>, nodes |-> <<T_DemoProduct>>],
   [title |-> <<"Phone 15">>, nodes |-> <<T_Phone15>>]}

\* a text node whose only digits are Devanagari: १२
T_Deva12 == <<"U+0967", "U+0968">>

BodyTexts == {T_Only1234, T_Mrp999, T_NoDigits, T_2For1, T_Deva12}
Bodies == UNION {[1..n -> BodyTexts] : n \in 0..MaxNodes}

GenericDocuments ==
  {[title |-> h.title, strings |-> h.nodes \o b] : h \in Heads, b \in Bodies}

GenericCalls == [fn : {"_parse_generic_product"}, soup : GenericDocuments]

\* site values given to parse_product_details: spellings of the two known
\* sites, and values that are neither
AmazonSpellings ==
  {<<AMAZON>>, <<<<" ", "A", "m", "a", "z", "o", "n", " ">>>>,
   <<<<"A", "M", "A", "Z", "O", "N">>>>, <<<<"a", "m", "a", "z", "o", "n", " ", " ">>>>,
   <<<<"a", "m", "a", "z", "o", "n", "\n">>>>,
   <<<<"\t", "A", "m", "a", "z", "o", "n", "\r", "\n">>>>,
   <<<<"U+00A0", "a", "m", "a", "z", "o", "n">>>>}
FlipkartSpellings ==
  {<<FLIPKART>>, <<<<"F", "L", "I", "P", "K", "A", "R", "T">>>>,
   <<<<" ", "F", "l", "i", "p", "k", "a", "r", "t">>>>,
   <<<<"F", "L", "I", "P", "U+212A", "A", "R", "T">>>>}
OtherSiteValues ==
  {<<>>, <<<<>>>>, <<<<" ">>>>, <<<<"o", "t", "h", "e", "r">>>>,
   <<<<"F", "L", "U+0130", "P", "K", "A", "R", "T">>>>,
   <<<<"a", "m", "a", "\n", "z", "o", "n">>>>,
   <<<<"a", "m", "a", "z", "o", "n", ".", "i", "n">>>>,
   <<<<"f", "l", "i", "p", " ", "k", "a", "r", "t">>>>,
   <<<<"a", "m", "a", "z", "o">>>>}

SelectorSites == AmazonSpellings \cup FlipkartSpellings \cup OtherSiteValues

SelectorCalls ==
  [fn : {"parse_product_details"}, soup : Pages \cup {RejectedMarkup},
   site_name : SelectorSites \cup {NotAString}]

\* price_history tables given to the functions of the store that read them:
\* up to MaxHistory rows of two products, row n written in minute n; prices
\* are in hundredths of a unit
HistoryPrices == {0 - 10000, 0, 1, 50, 51, 9400, 9900, 10000, 10100, 10500, 99999}
HistoryRows == [product_id : ProductIds, price : HistoryPrices]

\* a table written with a stamping, which is what the writer passes for
\* scraped_at with row n: nothing ("clock"); the number of time units since a
\* start 8 units before the table, as an int ("int"); or nothing for the odd
\* rows and the datetime object of the clock for the even ("mixed")
RECURSIVE WrittenWith(_, _)
WrittenWith(rows, stamping) ==
  IF rows = <<>> THEN <<>>
  ELSE LET n == Len(rows)
           scraped_at ==
             IF stamping = "int" THEN <<[kind |-> "int", value |-> 8 + n]>>
             ELSE IF stamping = "mixed" /\ n % 2 = 0
               THEN <<[kind |-> "datetime", minute |-> n, micro |-> n]>>
             ELSE None
       IN save_price_snapshot(WrittenWith(SubSeq(rows, 1, n - 1), stamping),
                              rows[n].product_id, rows[n].price, "INR", scraped_at, n)

\* a table whose writer leaves scraped_at to the store, as the program does
Written(rows) == WrittenWith(rows, "clock")

\* the chronological history 100, 100.5, 100.9 of one product
H_Stable == <<[product_id |-> 1, price |-> 10000], [product_id |-> 1, price |-> 10050],
              [product_id |-> 1, price |-> 10090]>>

Histories ==
  {Written(rows) : rows \in UNION {[1..n -> HistoryRows] : n \in 0..MaxHistory} \cup {H_Stable}}

\* tables whose writer passes scraped_at, over fewer prices
StampedHistories ==
  {WrittenWith(rows, stamping) :
     rows \in UNION {[1..n -> [product_id : ProductIds, price : {9400, 10000, 10500}]] :
                       n \in 0..MaxHistory},
     stamping \in {"int", "mixed"}}

Windows == {0 - 1, 0, 1, 2, 5}

TrendCalls ==
  [fn : {"get_price_trend_direction"}, hist : Histories \cup StampedHistories,
   product_id : ProductIds, window : Windows]

StatsCalls == [fn : {"get_min_max_avg_price"}, hist : Histories, product_id : ProductIds]

FunctionCalls ==
  AnalyzeCalls \cup ParseCalls \cup GenericCalls \cup SelectorCalls \cup TrendCalls
    \cup StatsCalls

MakeCall ==
  /\ fq = <<>>
  /\ \E c \in FunctionCalls : fq' = <<c>>
  /\ UNCHANGED <<storeVars, LAST_NOTIFIED, now, envVars, schedulerVars, sentTimes, suppressed, calls,
                 resolverVars, fr>>

Returns(value) ==
  /\ fr' = <<value>>
  /\ UNCHANGED <<storeVars, LAST_NOTIFIED, now, envVars, schedulerVars, sentTimes, suppressed, calls,
                 resolverVars, fq>>

Called(fn) == fq # <<>> /\ fr = <<>> /\ fq[1].fn = fn

RunAnalyzePrice ==
  /\ Called("analyze_price")
  /\ Returns(analyze_price(fq[1].current_price, fq[1].target_price))

RunParsePriceText ==
  /\ Called("_parse_price_text")
  /\ Returns(parse_price_text(fq[1].price_text))

RunParseGenericProduct ==
  /\ Called("_parse_generic_product")
  /\ Returns(parse_generic_product(fq[1].soup))

RunParseProductDetails ==
  /\ Called("parse_product_details")
  /\ Returns(parse_product_details(fq[1].soup, fq[1].site_name))

RunGetPriceTrendDirection ==
  /\ Called("get_price_trend_direction")
  /\ \E direction \in get_price_trend_direction(fq[1].hist, fq[1].product_id, fq[1].window) :
       Returns(direction)

RunGetMinMaxAvgPrice ==
  /\ Called("get_min_max_avg_price")
  /\ \E stats \in get_min_max_avg_price(fq[1].hist, fq[1].product_id) : Returns(stats)

FunctionNext ==
  \/ MakeCall
  \/ RunAnalyzePrice
  \/ RunParsePriceText
  \/ RunParseGenericProduct
  \/ RunParseProductDetails
  \/ RunGetPriceTrendDirection
  \/ RunGetMinMaxAvgPrice

\* the functions read neither the environment nor the store
FunctionInit ==
  /\ Init
  /\ products = <<>>
  /\ recipient_env = ""

FunctionSpec == FunctionInit /\ [][FunctionNext]_vars

\* =============================================================== properties
\* ---- of the check cycle and the scheduler (Spec)

InCycle == pc \in {"scrape", "persist", "notify", "summary"}

Failures == {"ScraperError", "Exception", "bad_price"}

\* product i of this tick has been through the whole loop body
Finished(i) == i < idx

\* the rows this tick has appended to the history of listed product i
SnapshotsOf(i) ==
  {k \in (histBase + 1)..Len(price_history) : price_history[k].product_id = listed[i].id}

\* C1: a product that fails (ScraperError, any other resolver exception, a
\* price that is not a number) is attempted once and left behind, the loop
\* goes on with the products after it, and the summary is reached only when
\* every listed product has been attempted exactly once.
C1_FailureDoesNotAbortCycle ==
  InCycle =>
    /\ \A i \in DOMAIN log :
         /\ log[i].attempts <= 1
         /\ log[i].result \in Failures => Finished(i)
         /\ Finished(i) => log[i].attempts = 1
    /\ pc # "summary" => idx \in DOMAIN listed
    /\ pc = "summary" => \A i \in DOMAIN listed : log[i].attempts = 1

C1_Witness ==
  /\ pc = "summary"
  /\ \E i, j \in DOMAIN log :
       /\ i < j
       /\ log[i].result \in {"ScraperError", "bad_price"}
       /\ log[j].result = "ok"
       /\ log[j].attempts = 1

\* C2: within a tick, a product whose scrape or coercion failed has no new
\* snapshot; a product whose scrape and coercion succeeded has, once the store
\* has taken the write, exactly one new snapshot, carrying the scraped price,
\* whether or not that price meets the target.
C2_OneSnapshotPerSuccessfulScrape ==
  InCycle =>
    \A i \in DOMAIN log :
      /\ Cardinality(SnapshotsOf(i)) <= 1
      /\ log[i].result # "ok" => SnapshotsOf(i) = {}
      /\ (log[i].result = "ok" /\ (Finished(i) \/ pc = "notify")) =>
           /\ Cardinality(SnapshotsOf(i)) = 1
           /\ \A k \in SnapshotsOf(i) : price_history[k].price = log[i].price

C2_Witness ==
  /\ pc = "summary"
  /\ \E i, j \in DOMAIN log :
       /\ log[i].result = "ok"
       /\ log[i].price > listed[i].target_price
       /\ Cardinality(SnapshotsOf(i)) = 1
       /\ log[j].result \in Failures
       /\ SnapshotsOf(j) = {}

\* C3: within a tick the notifier is called for a product only if that
\* product was scraped in this tick, the scraped price is at or below its
\* target, and a recipient is configured.
C3_NotifierOnlyWhenTargetMet ==
  InCycle =>
    \A i \in DOMAIN log :
      log[i].calls > 0 =>
        /\ log[i].result = "ok"
        /\ log[i].price <= listed[i].target_price
        /\ recipient_env # ""

C3_Witness ==
  /\ pc = "summary"
  /\ \E i, j \in DOMAIN log :
       /\ log[i].calls = 1
       /\ log[i].price = listed[i].target_price
       /\ log[j].result = "ok"
       /\ log[j].price > listed[j].target_price
       /\ log[j].calls = 0

\* C4: of two alerts delivered for the same (recipient, url) key, the later
\* one is sent at least 60 minutes after the earlier one was delivered
\* (sentTimes holds every message handed to the mail server).
C4_AlertsSixtyMinutesApart ==
  \A key \in Keys :
    \A a, b \in DOMAIN sentTimes[key] :
      a < b => sentTimes[key][b].from - sentTimes[key][a].to >= 60

\* C7: a finished product whose price of this tick is at or below its target,
\* with a recipient configured, has exactly one new snapshot and exactly one
\* call of the notifier (with the gate open that call delivers); no product
\* has more than one call of the notifier in a tick.
C7_OneSnapshotOneNotifierCall ==
  InCycle =>
    \A i \in DOMAIN log :
      /\ log[i].calls <= 1
      /\ (/\ Finished(i)
          /\ log[i].result = "ok"
          /\ log[i].price <= listed[i].target_price
          /\ recipient_env # "") =>
           /\ Cardinality(SnapshotsOf(i)) = 1
           /\ log[i].calls = 1

C7_Witness ==
  /\ InCycle
  /\ \E i \in DOMAIN log :
       /\ Finished(i)
       /\ log[i].price = listed[i].target_price
       /\ log[i].why = "sent"
       /\ log[i].calls = 1
       /\ Cardinality(SnapshotsOf(i)) = 1

\* C8: the scheduler loop ends for no reason other than the interrupt: no
\* error takes the process out of the loop.
C8_LoopStopsOnlyOnInterrupt ==
  ~(pc = "crashed" /\ stopCause \in {"error", "send_error"})

\* C9: the interrupt does not take the scheduler out of the loop while a
\* product is between its scrape and the end of its notification step.
C9_InterruptWaitsForProduct ==
  [][(pc \in {"persist", "notify"}) => (pc' # "menu")]_vars

\* ---- of the notifier (NotifierSpec)

\* the calls for the key of call k that had returned when call k began
EarlierCalls(k) == {j \in calls[k].returned : calls[j].key = calls[k].key}
EarlierSends(k) == {j \in EarlierCalls(k) : calls[j].sent}

Allowed(k) == calls[k].why # "cooldown"

\* C5: a call passes the gate if and only if no send is recorded for its key
\* or at least 60 minutes have passed since the recorded send; at exactly 60
\* it passes, below 60 it does not.
C5_GateOpenIffNoRecordOrCooldownElapsed ==
  \A k \in DOMAIN calls :
    /\ Allowed(k) <=> (~calls[k].had \/ calls[k].since >= 60)
    /\ (calls[k].had /\ calls[k].since = 60) => Allowed(k)
    /\ (calls[k].had /\ calls[k].since < 60) => ~Allowed(k)

C5_Witness ==
  \E j, k \in DOMAIN calls :
    /\ calls[j].had /\ calls[j].since = 59 /\ ~Allowed(j)
    /\ calls[k].had /\ calls[k].since = 60 /\ Allowed(k)

\* C6 as stated: the first attempt for a key is allowed, the attempt for the
\* same key that follows it at once is denied, and an attempt made 60 minutes
\* or more after the previous attempts for the key is allowed.
C6_SecondAttemptAlwaysDenied ==
  \A k \in DOMAIN calls :
    /\ EarlierCalls(k) = {} => Allowed(k)
    /\ (EarlierCalls(k) = {k - 1} /\ calls[k].at = calls[k - 1].done) => ~Allowed(k)
    /\ (\A j \in EarlierCalls(k) : calls[k].at - calls[j].done >= 60) => Allowed(k)

\* C6, amended: the first attempt for a key is allowed; an attempt that
\* follows at once an attempt for the same key that returned success is
\* denied, as is any attempt made less than 60 minutes after such a return;
\* an attempt made 60 minutes or more after the last return of a success for
\* the key is allowed; and attempts that return failure leave the gate open.
C6_AttemptAfterDeliveryDenied ==
  \A k \in DOMAIN calls :
    /\ EarlierSends(k) = {} => Allowed(k)
    /\ (k - 1 \in EarlierSends(k) /\ calls[k].at = calls[k - 1].done) => ~Allowed(k)
    /\ (\E j \in EarlierSends(k) : calls[k].at - calls[j].done < 60) => ~Allowed(k)
    /\ (/\ EarlierSends(k) # {}
        /\ \A j \in EarlierSends(k) : calls[k].at - calls[j].done >= 60) => Allowed(k)

C6_Witness ==
  /\ Len(calls) = 3
  /\ calls[1].key = calls[2].key
  /\ calls[2].key = calls[3].key
  /\ calls[1].sent
  /\ 1 \in calls[2].returned
  /\ calls[2].at = calls[1].done /\ ~Allowed(2)
  /\ calls[3].at - calls[1].done = 60 /\ Allowed(3)

\* ---- of the resolver (ResolverSpec)

\* C10: whatever the url, the site value and the response, the caller of
\* get_product_info gets product info with a name and a numeric price, for
\* the url and site it asked for, or a ScraperError; a transport failure is a
\* ScraperError.
C10_ResolverInfoOrScraperError ==
  rs # <<>> =>
    LET q == rq[1]
        r == rs[1]
    IN /\ r.kind \in {"ok", "ScraperError"}
       /\ r.kind = "ok" =>
            /\ {"product_name", "current_price"} \subseteq DOMAIN r
            /\ r.current_price \in Nat \X Nat
            /\ r.product_url = q.url
            /\ r.site_name = q.site_name
       /\ q.response.kind = "RequestException" => r.kind = "ScraperError"

\* C11: no call of send_price_drop_email ends with an exception: whatever the
\* configuration source and the transport do, the caller gets a boolean.
C11_NotifierNeverRaises ==
  \A k \in DOMAIN calls : calls[k].why # "raised"

\* C12: whenever _run_price_check_once returns to the scheduler loop it has
\* printed a run summary, with processed the number of products listed.
C12_EveryCycleEndsWithSummary ==
  [][(pc \in {"list", "scrape", "persist", "notify", "summary"} /\ pc' = "sleep")
       => (summary' # <<>> /\ summary'[1].processed = Len(listed))]_vars

\* ---- of the program's functions (FunctionSpec)

Returned(fn) == fq # <<>> /\ fr # <<>> /\ fq[1].fn = fn

\* C13: analyze_price returns difference = current - target and
\* is_below_or_equal exactly when that difference is at most 0, so a price
\* equal to the target meets it; (90,100) gives true and -10, (100,100) true
\* and 0, (120,100) false and 20.
C13_BelowOrEqualIffDifferenceNotPositive ==
  Returned("analyze_price") =>
    LET c == fq[1].current_price
        t == fq[1].target_price
        r == fr[1]
    IN /\ r.difference = c - t
       /\ r.is_below_or_equal <=> (c - t <= 0)
       /\ (c = 90 /\ t = 100) => (r.is_below_or_equal /\ r.difference = 0 - 10)
       /\ (c = 100 /\ t = 100) => (r.is_below_or_equal /\ r.difference = 0)
       /\ (c = 120 /\ t = 100) => (~r.is_below_or_equal /\ r.difference = 20)

C13_Witness ==
  /\ Returned("analyze_price")
  /\ fq[1].current_price = 100
  /\ fq[1].target_price = 100
  /\ fr[1].is_below_or_equal
  /\ fr[1].difference = 0

\* C14: the text "1.234.56", whose token has two periods, normalizes to
\* 1234.56 (123456 / 10^2).
C14_TwoPeriodsGive1234_56 ==
  (Returned("_parse_price_text") /\ fq[1].price_text = T_TwoPeriods) =>
    (fr[1].kind = "ok" /\ fr[1].price = <<123456, 2>>)

\* the candidate tokens of a text, told from the text itself: a token starts
\* at a digit that no earlier digit reaches through digits, commas and periods
\* alone, and runs to the end of that run of characters
TokenChars == Digits \cup {",", "."}

IsTokenStart(text, i) ==
  /\ text[i] \in Digits
  /\ \A h \in 1..(i - 1) :
       text[h] \in Digits => \E g \in h..i : text[g] \notin TokenChars

TokenStarts(text) == {i \in DOMAIN text : IsTokenStart(text, i)}

TokenFrom(text, i) ==
  LET j == CHOOSE k \in i..Len(text) :
             /\ \A g \in i..k : text[g] \in TokenChars
             /\ k = Len(text) \/ text[k + 1] \notin TokenChars
  IN SubSeq(text, i, j)

\* the start of the longest token, the leftmost one among the longest
LongestStart(text) ==
  CHOOSE i \in TokenStarts(text) :
    \A h \in TokenStarts(text) :
      \/ Len(TokenFrom(text, h)) < Len(TokenFrom(text, i))
      \/ Len(TokenFrom(text, h)) = Len(TokenFrom(text, i)) /\ i <= h

\* C15: _parse_price_text fails exactly on the texts with no candidate token;
\* on the others it returns the decimal value of the longest token, the
\* leftmost of the longest, with its commas removed (stated for tokens with at
\* most one period; a token with more is C14's case and still gives a
\* number); "Rs. 1,234.00" gives 1234, "MRP: 999" gives 999, "no digits
\* here" fails.
C15_LongestTokenFirstOnTies ==
  Returned("_parse_price_text") =>
    LET text == fq[1].price_text
        r == fr[1]
    IN /\ (r.kind = "ScraperError") <=> (TokenStarts(text) = {})
       /\ TokenStarts(text) # {} =>
            LET token == Remove(TokenFrom(text, LongestStart(text)), ",")
            IN /\ r.kind = "ok"
               /\ Count(token, ".") <= 1 => r.price = FloatValue(token)
       /\ text = T_Rs1234 => (r.kind = "ok" /\ r.price = <<1234, 0>>)
       /\ text = T_Mrp999 => (r.kind = "ok" /\ r.price = <<999, 0>>)
       /\ text = T_NoDigits => r.kind = "ScraperError"

C15_Witness ==
  /\ Returned("_parse_price_text")
  /\ fq[1].price_text = <<"2", " ", "1">>
  /\ fr[1].kind = "ok"
  /\ fr[1].price = <<2, 0>>

\* the text nodes of a document that contain a digit, by position
DigitNodes(soup) == {k \in DOMAIN soup.strings : HasDigit(soup.strings[k])}

\* C16: the generic extractor fails exactly when no text node yields a
\* price; otherwise the name is the title text, or "Unknown product" without
\* a title element, and the price is the normalized value of the first text
\* node, in document order, that has a digit.  Title "Demo Product" with the
\* text node "Only Rs. 1,234.00 today!" gives ("Demo Product", 1234).
C16_GenericFirstPricedTextNode ==
  Returned("_parse_generic_product") =>
    LET soup == fq[1].soup
        r == fr[1]
    IN /\ (r.kind = "ScraperError") <=> (DigitNodes(soup) = {})
       /\ DigitNodes(soup) # {} =>
            LET k == CHOOSE i \in DigitNodes(soup) : \A h \in DigitNodes(soup) : i <= h
            IN /\ r.kind = "ok"
               /\ r.price = parse_price_text(soup.strings[k]).price
               /\ r.name = IF soup.title = NoElement THEN "Unknown product"
                           ELSE soup.title[1]
       /\ (soup.title = <<"Demo Product">> /\ soup.strings = <<T_DemoProduct, T_Only1234>>)
            => (r.kind = "ok" /\ r.name = "Demo Product" /\ r.price = <<1234, 0>>)

C16_Witness ==
  /\ Returned("_parse_generic_product")
  /\ fq[1].soup.title = <<"Demo Product">>
  /\ fq[1].soup.strings = <<T_DemoProduct, T_NoDigits, T_Only1234, T_Mrp999>>
  /\ fr[1].kind = "ok"
  /\ fr[1].name = "Demo Product"
  /\ fr[1].price = <<1234, 0>>

\* what an extractor's result looks like once parse_product_details has
\* turned it into the details it returns
AsDetails(r) ==
  IF r.kind = "ok"
    THEN [kind |-> "ok", product_name |-> r.name, current_price |-> r.price]
    ELSE r

\* C17: for a page the parser reads and a site value that is a string or
\* missing, parse_product_details gives the amazon extractor's result exactly
\* for the spellings of "amazon" (any case, blanks around), the flipkart
\* extractor's exactly for the spellings of "flipkart", and the generic
\* extractor's for every other site value, the empty and the missing one included.
C17_ExtractorChosenBySite ==
  (/\ Returned("parse_product_details")
   /\ fq[1].soup # RejectedMarkup
   /\ fq[1].site_name # NotAString) =>
    LET soup == fq[1].soup
        site_name == fq[1].site_name
    IN fr[1] = AsDetails(IF site_name \in AmazonSpellings THEN parse_amazon_product(soup)
                         ELSE IF site_name \in FlipkartSpellings
                           THEN parse_flipkart_product(soup)
                         ELSE parse_generic_product(soup))

C17_Witness ==
  /\ Returned("parse_product_details")
  /\ fq[1].soup # RejectedMarkup
  /\ fq[1].site_name = <<<<" ", "A", "m", "a", "z", "o", "n", " ">>>>
  /\ fq[1].soup.title = <<"Demo Product">>
  /\ fq[1].soup.B_NuCI = <<"Gadget">>
  /\ fq[1].soup.strings = <<T_Mrp999, T_Rs1234>>
  /\ fr[1].kind = "ok"
  /\ fr[1].product_name = "Widget"

\* ---- of the price history (FunctionSpec)

\* the prices of a product in the order they were written, oldest first
RECURSIVE Chronological(_, _)
Chronological(hist, product_id) ==
  IF hist = <<>> THEN <<>>
  ELSE LET n == Len(hist)
           before == Chronological(SubSeq(hist, 1, n - 1), product_id)
       IN IF hist[n].product_id = product_id THEN Append(before, hist[n].price) ELSE before

\* the stamps of a table grow as texts from each row to the next, so that the
\* order of scraped_at is the order of writing
StampsAscend(hist) ==
  \A k \in 1..(Len(hist) - 1) : TextLess(hist[k].scraped_at, hist[k + 1].scraped_at)

\* the trend window of a call: the last `window` prices, at least two asked for
TrendWindow(call) ==
  LET all == Chronological(call.hist, call.product_id)
      w == IF call.window <= 1 THEN 2 ELSE call.window
  IN IF Len(all) <= w THEN all ELSE SubSeq(all, Len(all) - w + 1, Len(all))

\* |last - first| > threshold for the doubles of two prices in hundredths and
\* a threshold a hundred times as fine: as for the decimals, and where the
\* decimals are equal by the doubles, which differ for the pairs of RoundedApart
Exceeds(first, last, hundredfold) ==
  \/ 100 * Abs(last - first) > hundredfold
  \/ 100 * Abs(last - first) = hundredfold /\ <<first, last>> \in RoundedApart

\* the direction the rule gives for an oldest and a newest price in hundredths:
\* "stable" unless the change exceeds max(|first| * 0.01, 0.01) in magnitude,
\* the numbers being the doubles the store holds
Direction(first, last) ==
  LET hundredfold == IF Abs(first) >= 100 THEN Abs(first) ELSE 100
  IN IF ~Exceeds(first, last, hundredfold) THEN "stable"
     ELSE IF last > first THEN "up" ELSE "down"

\* the doubles of the change and of the threshold are equal
ChangeIsThreshold(first, last) ==
  /\ 100 * Abs(last - first) = Max2(Abs(first), 100)
  /\ <<first, last>> \notin RoundedApart

OneProduct(prices) == Written([k \in DOMAIN prices |-> [product_id |-> 1, price |-> prices[k]]])

\* C18: over a window of at least two prices, oldest `first` and newest `last`,
\* the trend is "up" when last - first > max(|first| * 0.01, 0.01), "down" when
\* last - first is below minus that, and "stable" otherwise, a change equal to
\* the threshold in either direction included; 100, 100.5, 100.9 is stable,
\* 100, 105 up, 100, 94 down.  The window is that of a table whose stamps are
\* in the order of writing.
C18_TrendByThreshold ==
  (Returned("get_price_trend_direction") /\ StampsAscend(fq[1].hist)) =>
    LET win == TrendWindow(fq[1])
    IN /\ Len(win) >= 2 => fr[1] = Direction(win[1], win[Len(win)])
       /\ (Len(win) >= 2 /\ ChangeIsThreshold(win[1], win[Len(win)])) => fr[1] = "stable"
       /\ (fq[1].product_id = 1 /\ fq[1].window = 5) =>
            /\ fq[1].hist = OneProduct(<<10000, 10050, 10090>>) => fr[1] = "stable"
            /\ fq[1].hist = OneProduct(<<10000, 10500>>) => fr[1] = "up"
            /\ fq[1].hist = OneProduct(<<10000, 9900>>) => fr[1] = "stable"
            /\ fq[1].hist = OneProduct(<<10000, 9400>>) => fr[1] = "down"

\* 100 then 101 with a window of 5: the change is the threshold, and stable
C18_Witness ==
  /\ Returned("get_price_trend_direction")
  /\ fq[1].hist = OneProduct(<<10000, 10100>>)
  /\ StampsAscend(fq[1].hist)
  /\ fq[1].product_id = 1
  /\ fq[1].window = 5
  /\ ChangeIsThreshold(10000, 10100)
  /\ fr = <<"stable">>

\* an average against a price in hundredths, its rounding error counted
AvgAtLeast(avg, price) ==
  \/ avg.sum > avg.count * price
  \/ avg.sum = avg.count * price /\ avg.rounding >= 0
AvgAtMost(avg, price) ==
  \/ avg.sum < avg.count * price
  \/ avg.sum = avg.count * price /\ avg.rounding <= 0

\* C19: get_min_max_avg_price returns none exactly when the product has no
\* snapshots; otherwise count is the number of that product's snapshots, min
\* and max are the smallest and largest of their prices, min <= avg <= max,
\* and no snapshot of another product contributes.
C19_StatsOfOwnSnapshots ==
  Returned("get_min_max_avg_price") =>
    LET own == Chronological(fq[1].hist, fq[1].product_id)
        values == {own[k] : k \in DOMAIN own}
    IN /\ fr[1] = NoStats <=> own = <<>>
       /\ own # <<>> =>
            /\ fr[1][1].count = Len(own)
            /\ fr[1][1].min_price \in values /\ \A v \in values : fr[1][1].min_price <= v
            /\ fr[1][1].max_price \in values /\ \A v \in values : fr[1][1].max_price >= v
            /\ AvgAtLeast(fr[1][1].avg_price, fr[1][1].min_price)
            /\ AvgAtMost(fr[1][1].avg_price, fr[1][1].max_price)

\* ---- of the products table (Spec)

\* C20: after any sequence of product creations, updates and active-flag
\* toggles, every product held in the store has target_price > 0.
C20_TargetPricePositive ==
  \A k \in DOMAIN products : products[k].target_price > 0

\* the menu has added a product to those the store held at the start, and a
\* product has been set inactive
C20_Witness ==
  /\ Len(products) = MaxProducts
  /\ \E k \in DOMAIN products : ~products[k].active
  /\ \E k \in DOMAIN products : products[k].target_price = 2 /\ products[k].active

\* ---- of the active flag (Spec)

\* the listed products that are the stored product p
ListedAs(p) == {i \in DOMAIN listed : listed[i].id = products[p].id}

\* C21: a cycle works only on products whose active flag was set when it
\* listed them; while a product is inactive in the store no step appends a
\* snapshot for it or calls the notifier for it.
C21_InactiveProductsUntouched ==
  /\ [](InCycle => \A i \in DOMAIN listed : listed[i].active)
  /\ [][\A p \in DOMAIN products :
          ~products[p].active =>
            /\ RowsOf(price_history', products[p].id) = RowsOf(price_history, products[p].id)
            /\ \A i \in ListedAs(p) : log'[i] = log[i]]_vars

\* a second cycle has worked on one product while the other, scraped by the
\* first cycle, is inactive and has gained nothing
C21_Witness ==
  /\ pc = "summary"
  /\ \E p, q \in DOMAIN products :
       /\ ~products[p].active
       /\ RowsOf(price_history, products[p].id) # {}
       /\ \A k \in RowsOf(price_history, products[p].id) : k <= histBase
       /\ ListedAs(p) = {}
       /\ \E i \in ListedAs(q) : SnapshotsOf(i) # {}

\* ---- of the store's round trip (StoreSpec)

\* the first n entries of a sequence, all of it if it is shorter
Newest(seq, n) == IF n >= Len(seq) THEN seq ELSE SubSeq(seq, 1, n)

\* a sequence back to front
Backwards(seq) == [k \in 1..Len(seq) |-> seq[Len(seq) + 1 - k]]

PricesOf(rows) == [k \in 1..Len(rows) |-> rows[k].price]

\* C22: every product added is in get_all_products(active_only=None) under
\* its id, active or not; get_price_history(p) is exactly the snapshots
\* appended for p, newest first, and with a limit the newest `limit` of them.
C22_StoreRoundTrip ==
  /\ \A k \in DOMAIN products :
       \E j \in DOMAIN get_all_products(products, "None") :
         get_all_products(products, "None")[j] = products[k]
  /\ \A p \in ProductIds :
       LET appended == Backwards(Chronological(price_history, p))
       IN /\ PricesOf(get_price_history(price_history, p, <<>>)) = appended
          /\ \A row \in {get_price_history(price_history, p, <<>>)[k] :
                           k \in 1..Len(get_price_history(price_history, p, <<>>))} :
               row.product_id = p
          /\ \A limit \in 0..MaxHistory :
               PricesOf(get_price_history(price_history, p, <<limit>>)) =
                 Newest(appended, limit)

\* ---- of the products of one tick (Spec)

\* the cooldown key of listed product j
KeyOf(j) == <<recipient_env, listed[j].product_url>>

\* C23: the terminal state a product reaches in a tick does not depend on what
\* happened to the other products of the tick.  A product's scrape result, its
\* price and target, the recipient, the SMTP settings and the transport outcome
\* of its own call are its own; what is left is the gate, so the notifier
\* denies a product's call exactly when the gate of its key was closed as the
\* tick began.
C23_OutcomeIndependentOfOtherProducts ==
  InCycle =>
    \A j \in DOMAIN log :
      log[j].calls = 1 => (log[j].why = "cooldown" <=> KeyOf(j) \notin gateBase)

\* ---- of a suppressed notification (Spec)

\* C24: a notification the cooldown suppressed is dropped, not queued.  An
\* alert is delivered for a key only by a tick's notify step for a product of
\* that key whose price, scraped in this tick, is at or below its target, and
\* only while the gate of the key is open; so when every later scraped price
\* is above the target nothing is sent for the suppressed drop.
C24_SuppressedNeverSentLater ==
  [][\A key \in Keys :
       sentTimes'[key] # sentTimes[key] =>
         /\ pc = "notify"
         /\ key = KeyOf(idx)
         /\ log[idx].attempts = 1 /\ log[idx].price = info
         /\ info <= listed[idx].target_price
         /\ can_send(LAST_NOTIFIED, key, now)
         /\ Len(sentTimes'[key]) = Len(sentTimes[key]) + 1]_vars

\* a drop was suppressed, the cooldown has expired since, a later tick has
\* scraped a product of that key above its target and ended, and no alert was
\* delivered for the key after the suppression
C24_Witness ==
  /\ pc = "summary"
  /\ \E key \in Keys :
       /\ suppressed[key] # {}
       /\ \A t \in suppressed[key] : t < now
       /\ can_send(LAST_NOTIFIED, key, now)
       /\ \E j \in DOMAIN log :
            /\ KeyOf(j) = key
            /\ log[j].result = "ok"
            /\ log[j].price > listed[j].target_price
       /\ \A a \in DOMAIN sentTimes[key] :
            \A t \in suppressed[key] : sentTimes[key][a].from <= t

\* ---- of the order of persisting and notifying (Spec)

\* C25: the snapshot of a product is persisted before the notifier is invoked
\* for it: whenever the cycle stands before the notifier call, or has made it,
\* the tick's snapshot of that product is in the history with the price
\* scraped.  An interrupt between the two steps, before the notifier is
\* entered, leaves the history as it is and sends nothing, and a notifier call
\* is decided by the price scraped in the tick of the call.
C25_SnapshotBeforeNotifier ==
  /\ [](InCycle =>
          \A i \in DOMAIN log :
            (log[i].calls > 0 \/ (pc = "notify" /\ i = idx)) =>
              /\ Cardinality(SnapshotsOf(i)) = 1
              /\ \A k \in SnapshotsOf(i) : price_history[k].price = log[i].price)
  /\ [][/\ (pc = "notify" /\ pc' = "menu" /\ stopCause' = "interrupt") =>
            /\ price_history' = price_history
            /\ sentTimes' = sentTimes
            /\ LAST_NOTIFIED' = LAST_NOTIFIED
        /\ (pc = "notify" /\ pc' # "menu" /\ log'[idx].calls > log[idx].calls) =>
            /\ log[idx].attempts = 1
            /\ log[idx].price = info
            /\ info <= listed[idx].target_price]_vars

\* a drop was stored for a product and no alert was ever delivered or
\* suppressed for its key; a later tick has scraped the product above its
\* target and ended without calling the notifier for it
C25_Witness ==
  /\ pc = "summary"
  /\ recipient_env # ""
  /\ \E j \in DOMAIN log :
       /\ \E k \in 1..histBase :
            /\ price_history[k].product_id = listed[j].id
            /\ price_history[k].price <= listed[j].target_price
       /\ sentTimes[KeyOf(j)] = <<>>
       /\ suppressed[KeyOf(j)] = {}
       /\ log[j].result = "ok"
       /\ log[j].price > listed[j].target_price
       /\ Cardinality(SnapshotsOf(j)) = 1
       /\ log[j].calls = 0

\* ---- of the window of the trend (FunctionSpec)

\* C26: get_price_trend_direction compares the oldest and the newest price of
\* the most recent max(window, 2) snapshots of the product, all of them if
\* there are fewer: a window of 1 or less gives what a window of 2 gives, fewer
\* than two snapshots give "stable", and snapshots older than the window do
\* not change the result.
C26_TrendOverRecentWindow ==
  Returned("get_price_trend_direction") =>
    LET all == Chronological(fq[1].hist, fq[1].product_id)
        n == Len(all)
        w == IF fq[1].window >= 2 THEN fq[1].window ELSE 2
        oldest == IF n <= w THEN 1 ELSE n - w + 1
    IN /\ n < 2 => fr[1] = "stable"
       /\ n >= 2 => fr[1] = Direction(all[oldest], all[n])

\* ---- of the history as a record that only grows (StoreSpec)

\* C27: price history is append-only: over every step, whether it saves or
\* updates a product, toggles one or writes a snapshot, each stored snapshot
\* stays where it is with its product id, price, currency and timestamp, and
\* the snapshots of each product only gain entries.
C27_HistoryAppendOnly ==
  [][/\ Len(price_history') >= Len(price_history)
     /\ \A k \in DOMAIN price_history : price_history'[k] = price_history[k]
     /\ \A p \in ProductIds :
          RowsOf(price_history, p) \subseteq RowsOf(price_history', p)]_vars

\* a product with two snapshots at different prices and times, now inactive
\* and with a target that is not positive, beside a snapshot of another product
C27_Witness ==
  /\ Len(price_history) = MaxHistory
  /\ \E p \in DOMAIN products :
       /\ ~products[p].active
       /\ products[p].target_price <= 0
       /\ \E j, k \in DOMAIN price_history :
            /\ j < k
            /\ price_history[j].product_id = products[p].id
            /\ price_history[k].product_id = products[p].id
            /\ price_history[j].price # price_history[k].price
            /\ TextLess(price_history[j].scraped_at, price_history[k].scraped_at)
       /\ \E k \in DOMAIN price_history : price_history[k].product_id # products[p].id

\* ---- of what writes the cooldown map (NotifierSpec)

\* C28: a call of send_price_drop_email changes _LAST_NOTIFIED only when it
\* delivers, and then writes only the entry of its own (recipient, product_url)
\* key: a call the gate denies, a call skipped for missing configuration or
\* recipient, a call that raises or is interrupted and a call whose transport
\* fails, before or after the message is handed over, leave the
\* whole map as it was, so the gate of the key is after the call what it was
\* before, and the entries of other keys are never written.
C28_MapWrittenOnlyBySuccess ==
  [][/\ LAST_NOTIFIED' # LAST_NOTIFIED =>
          \E k \in DOMAIN calls : InExchange(k) /\ calls'[k].sent
     /\ \A k \in DOMAIN calls' :
          (calls'[k].why # "exchange" /\ (k \in DOMAIN calls => InExchange(k))) =>
            LET call == calls'[k]
            IN /\ ~call.sent =>
                    /\ call.why \in {"cooldown", "raised", "config", "transport",
                                     "interrupted"}
                    /\ LAST_NOTIFIED' = LAST_NOTIFIED
                    /\ \A t \in {call.done, call.done + COOLDOWN_MINUTES - 1} :
                         can_send(LAST_NOTIFIED', call.key, t)
                           = can_send(LAST_NOTIFIED, call.key, t)
               /\ call.sent =>
                    /\ DOMAIN LAST_NOTIFIED' = DOMAIN LAST_NOTIFIED \cup {call.key}
                    /\ LAST_NOTIFIED'[call.key] = call.done
                    /\ \A j \in DOMAIN LAST_NOTIFIED \ {call.key} :
                         LAST_NOTIFIED'[j] = LAST_NOTIFIED[j]]_vars

\* an alert for one key was delivered while a call for another key was in its
\* exchange; that call's transport failed, and the call that followed at once
\* for its key delivered; the entry of the first key is still the time of its
\* delivery
C28_Witness ==
  /\ Len(calls) = 3
  /\ calls[1].sent
  /\ calls[2].why = "transport"
  /\ 1 \notin calls[2].returned
  /\ calls[2].key # calls[1].key
  /\ calls[3].key = calls[2].key
  /\ calls[3].at = calls[2].done
  /\ calls[3].sent
  /\ LAST_NOTIFIED[calls[1].key] = calls[1].done
  /\ LAST_NOTIFIED[calls[3].key] = calls[3].done

\* ---- of the counters of a cycle (Spec)

\* the function is running, or an exception of the store has just left it
InFunction == InCycle \/ (pc = "crashed" /\ listed # <<>>)

\* C29: at every point of a check cycle notifications_sent <= successful_scrapes
\* <= processed <= the number of products listed; each counter never decreases
\* within the cycle and counts a product at most once; and successful_scrapes
\* counts a product before its snapshot write is attempted, so that it is one
\* ahead of the snapshots of the tick while the write is pending or has failed.
C29_CountersOrdered ==
  /\ [](InFunction =>
          /\ notifications_sent <= successful_scrapes
          /\ successful_scrapes <= processed
          /\ processed <= Len(listed)
          /\ \A i \in DOMAIN log : log[i].attempts <= 1 /\ log[i].sent <= 1
          /\ processed = Cardinality({i \in DOMAIN log : log[i].attempts > 0})
          /\ successful_scrapes = Cardinality({i \in DOMAIN log : log[i].result = "ok"})
          /\ notifications_sent = Cardinality({i \in DOMAIN log : log[i].sent > 0})
          /\ successful_scrapes = (Len(price_history) - histBase)
                                    + (IF pc = "persist" \/ (pc = "crashed" /\ stopCause = "error")
                                         THEN 1 ELSE 0))
  /\ [][(InCycle /\ pc' \in {"scrape", "persist", "notify", "summary", "crashed"}) =>
          /\ processed' \in {processed, processed + 1}
          /\ successful_scrapes' \in {successful_scrapes, successful_scrapes + 1}
          /\ notifications_sent' \in {notifications_sent, notifications_sent + 1}
          /\ (pc' = "persist") => successful_scrapes' = successful_scrapes + 1
          /\ (pc = "persist") => successful_scrapes' = successful_scrapes]_vars

\* the second product of a tick was scraped and counted and its snapshot write
\* failed: two successful scrapes, one snapshot of the tick, one alert
C29_Witness ==
  /\ pc = "crashed"
  /\ stopCause = "error"
  /\ processed = 2
  /\ successful_scrapes = 2
  /\ notifications_sent = 1
  /\ Len(price_history) - histBase = 1

====
